---- MODULE Spec2Model ----
(***************************************************************************)
(* MyArchive: the page store (backend/routes/pages.js), the cell store     *)
(* (backend/routes/cells.js), the SQLite schema (backend/db.js) and the    *)
(* ALL-CAPS auto-link scan and the link menu of the Cell component.        *)
(*                                                                         *)
(* Strings are sequences of one-character strings.  JavaScript's null,     *)
(* undefined and '' are the integers NULL, UNDEF and EMPTYSTR; a page id   *)
(* taken from the URL is a string in the code ('0' is truthy) and a page   *)
(* id taken from the JSON body is a number (0 is falsy): every operator    *)
(* that tests an id for truthiness is told which of the two it has.        *)
(***************************************************************************)
EXTENDS Integers, Sequences, FiniteSets, TLC

\* ------------------------------------------------------------------ bounds
MaxPageId == 2
MaxCellId == 3
MaxIds == 2
MaxCellPages == 1
MaxFailAt == 2
MaxContentLen == 4
MaxScans == 2
MaxTyped == 1
MaxMenus == 2
MaxQueries == 2
MaxProjects == 3

\* ------------------------------------------------------- JavaScript values
NULL == -1
UNDEF == -2
EMPTYSTR == -3
MAIN == -4

Truthy(v) == v \notin {NULL, UNDEF, EMPTYSTR, 0}

\* ---------------------------------------------------------------- strings
SEP == <<" ", ">", " ">>
NoTitle == <<"undefined">>
MainTitle == <<"M">>
SummarySuffix == <<" ", "S">>
TitleInputs == {<<"A">>, <<"b">>, <<" ">>}

Whitespace == {" "}
UpperOf(c) == CASE c = "a" -> "A" [] c = "b" -> "B" [] c = "m" -> "M" [] c = "s" -> "S" [] OTHER -> c
LowerOf(c) == CASE c = "A" -> "a" [] c = "B" -> "b" [] c = "M" -> "m" [] c = "S" -> "s" [] OTHER -> c

toUpperCase(s) == [i \in 1..Len(s) |-> UpperOf(s[i])]
toLowerCase(s) == [i \in 1..Len(s) |-> LowerOf(s[i])]

\* !title || title.trim() === ''
IsBlank_EmptyOnly(s) == s = <<>>

\* s.trim() === ''
IsBlank(s) == \A i \in 1..Len(s) : s[i] \in Whitespace

RECURSIVE Join(_, _)
Join(parts, sep) ==
    IF parts = <<>> THEN <<>>
    ELSE IF Len(parts) = 1 THEN parts[1]
    ELSE parts[1] \o sep \o Join(Tail(parts), sep)

RECURSIVE Split(_, _)
\* str.split(' '): the pieces between the separator characters
Split(s, c) ==
    IF \A i \in 1..Len(s) : s[i] # c THEN <<s>>
    ELSE LET k == CHOOSE i \in 1..Len(s) : s[i] = c /\ \A j \in 1..(i-1) : s[j] # c
         IN <<SubSeq(s, 1, k-1)>> \o Split(SubSeq(s, k+1, Len(s)), c)

capitalize(word) ==
    IF word = <<>> THEN <<>>
    ELSE <<UpperOf(word[1])>> \o toLowerCase(Tail(word))

toCamelCase(str) ==
    LET words == Split(str, " ")
    IN Join([i \in 1..Len(words) |-> capitalize(words[i])], <<" ">>)

RECURSIVE SortedSeq(_)
SortedSeq(S) ==
    IF S = {} THEN <<>>
    ELSE LET m == CHOOSE x \in S : \A y \in S : x <= y
         IN <<m>> \o SortedSeq(S \ {m})

\* ------------------------------------------------------------------ state
\* pages, cells: the rows of the two tables, by id.  nextPageId, nextCellId: the
\* AUTOINCREMENT counters.  last: the response to the latest request, with what
\* the request did to the store: n, the number of rows it inserted, removed or
\* gave a new value; for a cell request id, the page (or cell) it addressed; for
\* a reorder len, the length of its list, and k, the number of its UPDATE
\* statements that matched no row.
\* editor: the Cell component being edited: html, the innerHTML of its content
\* element; allPages, the pages the component was given, as <<id, title>> in
\* the order of the list; pageId, the page the cell is on; scans, the number of
\* input events handled; made, the number of links the latest of them added;
\* content, the component's content state; saved, the content of the cell's row
\* as the latest updateCell left it, and sent, the number of updateCell requests
\* the latest handler made; showContextMenu, showCreatePageModal, isContextMenuOpen, selectedText
\* and newPageParent, the component's states of these names; editingLinkNode,
\* the <<target, text>> of the link node held, <<>> for none; typed and menus,
\* the numbers of characters typed and of menus opened; before, the html the
\* latest selection was made in, and clean, whether nothing was typed since;
\* ev, the latest handler run.  Of the link menu the component renders:
\* suggestions, its suggestions state, as page ids; inflight, its suggest
\* requests not yet answered, as [n, text]; issued, the number of requests it
\* has made since it was mounted; searchText, the text its fetch effect last
\* ran for; shown, the number of the request whose answer is in suggestions.
\* Of PageContent: page, the id of the page it shows (MAIN for the main page,
\* NULL for none), and cells, its cells state, as cell ids.  Of WikiPage:
\* wikiPages, its allPages state, the page rows it holds by id.
\* meta is meta.db: projects, the rows of its projects table by id, as
\* [name, display_name], and seq, the largest id the table has given.
\* pages, cells, nextPageId and nextCellId are the database file of the
\* project directory ProjectSlug, and the connection the server keeps to it;
\* pages has no row while that file was never opened.
VARIABLES pages, cells, nextPageId, nextCellId, last, editor, meta

vars == <<pages, cells, nextPageId, nextCellId, last, editor, meta>>

WalkFuel == MaxPageId + 2
StackDepth == 2 * MaxPageId + 4

PageIdParams == (0..MaxPageId) \cup {MAIN}
ParentIdInputs == (0..MaxPageId) \cup {NULL, UNDEF, EMPTYSTR}

Resp(op, status, err, id, len, n, k) ==
    [op |-> op, status |-> status, err |-> err, id |-> id, len |-> len, n |-> n, k |-> k,
     rows |-> <<>>, scores |-> <<>>, more |-> <<>>]

\* the response of a read request: rows, the ids of the pages of its list in
\* the order of the list; scores, their scores when the list carries them;
\* more, the ids of a second list
Rows(op, rows, scores, more) ==
    [Resp(op, 200, "", 0, 0, 0, 0) EXCEPT !.rows = rows, !.scores = scores, !.more = more]

Restrict(f, S) == [x \in S |-> f[x]]

\* the component as mounted on an empty cell of the main page
EditorIdle ==
    [html |-> <<>>, allPages |-> <<>>, pageId |-> 0, scans |-> 0, made |-> 0,
     content |-> <<>>, saved |-> <<>>, sent |-> 0,
     showContextMenu |-> FALSE, showCreatePageModal |-> FALSE,
     isContextMenuOpen |-> FALSE, selectedText |-> <<>>, newPageParent |-> NULL,
     editingLinkNode |-> <<>>, typed |-> 0, menus |-> 0, before |-> <<>>,
     clean |-> FALSE, ev |-> "mount",
     suggestions |-> <<>>, inflight |-> {}, issued |-> 0, searchText |-> <<>>,
     shown |-> 0, page |-> NULL, cells |-> <<>>, wikiPages |-> <<>>]

\* ------------------------------------------------------------- page store
RECURSIVE buildParts(_, _, _, _)
buildParts(pg, currentId, truthy, fuel) ==
    IF ~truthy \/ currentId \notin DOMAIN pg \/ fuel = 0 THEN <<>>
    ELSE buildParts(pg, pg[currentId].parent_id, Truthy(pg[currentId].parent_id), fuel - 1)
             \o <<pg[currentId].title>>

buildPath(pg, pageId, truthy) == Join(buildParts(pg, pageId, truthy, WalkFuel), SEP)

\* a foreign key column: NULL or the id of a row of the referenced table
ForeignKeyOk(pg, ref) == ref = NULL \/ ref \in DOMAIN pg

SeedCells_Unordered(pageId, title) ==
    (nextCellId :> [page_id |-> pageId, type |-> "header",
                    content |-> toCamelCase(title) \o SummarySuffix, order_index |-> 0])
    @@ ((nextCellId + 1) :> [page_id |-> pageId, type |-> "text",
                             content |-> <<>>, order_index |-> 0])

SeedCells(pageId, title) ==
    (nextCellId :> [page_id |-> pageId, type |-> "header",
                    content |-> toCamelCase(title) \o SummarySuffix, order_index |-> 0])
    @@ ((nextCellId + 1) :> [page_id |-> pageId, type |-> "text",
                             content |-> <<>>, order_index |-> 1])

CreatePage(title, parentId) ==
    /\ nextPageId <= MaxPageId
    /\ LET path == buildPath(pages, parentId, Truthy(parentId))
                       \o (IF Truthy(parentId) THEN SEP ELSE <<>>) \o title
           parent == IF Truthy(parentId) THEN parentId ELSE NULL
       IN IF IsBlank(title)
          THEN /\ last' = Resp("createPage", 400, "title", 0, 0, 0, 0)
               /\ UNCHANGED <<pages, cells, nextPageId, nextCellId>>
          ELSE IF ~ForeignKeyOk(pages, parent)
          THEN /\ last' = Resp("createPage", 500, "store", 0, 0, 0, 0)
               /\ UNCHANGED <<pages, cells, nextPageId, nextCellId>>
          ELSE /\ pages' = pages @@ (nextPageId :>
                              [title |-> title, parent_id |-> parent, path |-> path])
               /\ cells' = cells @@ SeedCells(nextPageId, title)
               /\ nextPageId' = nextPageId + 1
               /\ nextCellId' = nextCellId + 2
               /\ last' = Resp("createPage", 201, "", 0, 0, 3, 0)

ChildrenOf(pg, parentId) == {c \in DOMAIN pg : pg[c].parent_id = parentId}

RECURSIVE updateDescendantPaths(_, _, _, _)
RECURSIVE forEachChild(_, _, _, _, _)
\* the UPDATE statements the recursion issues, in order, as <<id, path>>;
\* overflow: the recursion exceeded the call stack (RangeError)
updateDescendantPaths(pg, parentId, truthy, depth) ==
    IF depth = 0 THEN [w |-> <<>>, overflow |-> TRUE]
    ELSE forEachChild(pg, parentId, truthy, SortedSeq(ChildrenOf(pg, parentId)), depth)

forEachChild(pg, parentId, truthy, children, depth) ==
    IF children = <<>> THEN [w |-> <<>>, overflow |-> FALSE]
    ELSE LET child == Head(children)
             childPath == buildPath(pg, parentId, truthy) \o SEP \o pg[child].title
             sub == updateDescendantPaths(pg, child, Truthy(child), depth - 1)
         IN IF sub.overflow
            THEN [w |-> <<<<child, childPath>>>> \o sub.w, overflow |-> TRUE]
            ELSE LET rest == forEachChild(pg, parentId, truthy, Tail(children), depth)
                 IN [w |-> <<<<child, childPath>>>> \o sub.w \o rest.w,
                     overflow |-> rest.overflow]

RECURSIVE ApplyPathUpdates_Retitles(_, _)
ApplyPathUpdates_Retitles(pg, w) ==
    IF w = <<>> THEN pg
    ELSE ApplyPathUpdates_Retitles(
             [pg EXCEPT ![w[1][1]].path = w[1][2], ![w[1][1]].title = w[1][2]], Tail(w))

RECURSIVE ApplyPathUpdates(_, _)
ApplyPathUpdates(pg, w) ==
    IF w = <<>> THEN pg
    ELSE ApplyPathUpdates([pg EXCEPT ![w[1][1]].path = w[1][2]], Tail(w))

RECURSIVE circularMoveCheck(_, _, _, _)
\* the while loop of the circular move check: TRUE when it returns the 400
circularMoveCheck(pg, currentId, pageId, fuel) ==
    IF ~Truthy(currentId) \/ currentId \notin DOMAIN pg \/ fuel = 0 THEN FALSE
    ELSE IF pg[currentId].parent_id = pageId THEN TRUE
    ELSE circularMoveCheck(pg, pg[currentId].parent_id, pageId, fuel - 1)

putPage_RenamesSummary(pageId, title, parentId, failAt) ==
    IF pageId \notin DOMAIN pages
    THEN /\ last' = Resp("updatePage", 404, "page", 0, 0, 0, 0)
         /\ UNCHANGED <<pages, cells, nextPageId, nextCellId>>
    ELSE
    LET page == pages[pageId]
        newTitle == IF title # NoTitle THEN title ELSE page.title
        newParentId == IF parentId # UNDEF
                       THEN (IF parentId = EMPTYSTR THEN NULL ELSE parentId)
                       ELSE page.parent_id
        checked == parentId # UNDEF /\ parentId # page.parent_id
        newPath == buildPath(pages, newParentId, Truthy(newParentId))
                       \o (IF Truthy(newParentId) THEN SEP ELSE <<>>) \o newTitle
        updated == [pages EXCEPT ![pageId] =
                       [title |-> newTitle, parent_id |-> newParentId, path |-> newPath]]
        cascade == IF newParentId # page.parent_id \/ newTitle # page.title
                   THEN updateDescendantPaths(updated, pageId, TRUE, StackDepth)
                   ELSE [w |-> <<>>, overflow |-> FALSE]
        done == IF failAt >= 2 /\ failAt - 2 < Len(cascade.w)
                THEN SubSeq(cascade.w, 1, failAt - 2) ELSE cascade.w
        thrown == failAt >= 2 /\ failAt - 2 < Len(cascade.w)
    IN IF IsBlank(newTitle)
       THEN /\ last' = Resp("updatePage", 400, "title", 0, 0, 0, 0)
            /\ UNCHANGED <<pages, cells, nextPageId, nextCellId>>
       ELSE IF checked /\ parentId = pageId
       THEN /\ last' = Resp("updatePage", 400, "self", 0, 0, 0, 0)
            /\ UNCHANGED <<pages, cells, nextPageId, nextCellId>>
       ELSE IF checked /\ circularMoveCheck(pages, parentId, pageId, WalkFuel)
       THEN /\ last' = Resp("updatePage", 400, "descendant", 0, 0, 0, 0)
            /\ UNCHANGED <<pages, cells, nextPageId, nextCellId>>
       ELSE IF ~ForeignKeyOk(pages, newParentId) \/ failAt = 1
       THEN /\ last' = Resp("updatePage", 500, "store", 0, 0, 0, 0)
            /\ UNCHANGED <<pages, cells, nextPageId, nextCellId>>
       ELSE /\ pages' = ApplyPathUpdates(updated, done)
            /\ last' = IF thrown THEN Resp("updatePage", 500, "store", 0, 0, 1 + Len(done), 0)
                       ELSE IF cascade.overflow
                       THEN Resp("updatePage", 500, "stack", 0, 0, 1 + Len(done), 0)
                       ELSE Resp("updatePage", 200, "", 0, 0, 1 + Len(done), 0)
            /\ cells' = [c \in DOMAIN cells |->
                            IF cells[c].page_id = pageId /\ cells[c].type = "header"
                            THEN [cells[c] EXCEPT !.content = toCamelCase(newTitle) \o SummarySuffix]
                            ELSE cells[c]]
            /\ UNCHANGED <<nextPageId, nextCellId>>

\* router.put('/:projectId/pages/:pageId').  failAt = 0: the store executes every
\* statement; failAt = j > 0: the j-th UPDATE the handler issues throws.  The
\* handler opens no transaction, so the UPDATEs before it stay.
putPage(pageId, title, parentId, failAt) ==
    IF pageId \notin DOMAIN pages
    THEN /\ last' = Resp("updatePage", 404, "page", 0, 0, 0, 0)
         /\ UNCHANGED <<pages, cells, nextPageId, nextCellId>>
    ELSE
    LET page == pages[pageId]
        newTitle == IF title # NoTitle THEN title ELSE page.title
        newParentId == IF parentId # UNDEF
                       THEN (IF parentId = EMPTYSTR THEN NULL ELSE parentId)
                       ELSE page.parent_id
        checked == parentId # UNDEF /\ parentId # page.parent_id
        newPath == buildPath(pages, newParentId, Truthy(newParentId))
                       \o (IF Truthy(newParentId) THEN SEP ELSE <<>>) \o newTitle
        updated == [pages EXCEPT ![pageId] =
                       [title |-> newTitle, parent_id |-> newParentId, path |-> newPath]]
        cascade == IF newParentId # page.parent_id \/ newTitle # page.title
                   THEN updateDescendantPaths(updated, pageId, TRUE, StackDepth)
                   ELSE [w |-> <<>>, overflow |-> FALSE]
        done == IF failAt >= 2 /\ failAt - 2 < Len(cascade.w)
                THEN SubSeq(cascade.w, 1, failAt - 2) ELSE cascade.w
        thrown == failAt >= 2 /\ failAt - 2 < Len(cascade.w)
    IN IF IsBlank(newTitle)
       THEN /\ last' = Resp("updatePage", 400, "title", 0, 0, 0, 0)
            /\ UNCHANGED <<pages, cells, nextPageId, nextCellId>>
       ELSE IF checked /\ parentId = pageId
       THEN /\ last' = Resp("updatePage", 400, "self", 0, 0, 0, 0)
            /\ UNCHANGED <<pages, cells, nextPageId, nextCellId>>
       ELSE IF checked /\ circularMoveCheck(pages, parentId, pageId, WalkFuel)
       THEN /\ last' = Resp("updatePage", 400, "descendant", 0, 0, 0, 0)
            /\ UNCHANGED <<pages, cells, nextPageId, nextCellId>>
       ELSE IF ~ForeignKeyOk(pages, newParentId) \/ failAt = 1
       THEN /\ last' = Resp("updatePage", 500, "store", 0, 0, 0, 0)
            /\ UNCHANGED <<pages, cells, nextPageId, nextCellId>>
       ELSE /\ pages' = ApplyPathUpdates(updated, done)
            /\ last' = IF thrown THEN Resp("updatePage", 500, "store", 0, 0, 1 + Len(done), 0)
                       ELSE IF cascade.overflow
                       THEN Resp("updatePage", 500, "stack", 0, 0, 1 + Len(done), 0)
                       ELSE Resp("updatePage", 200, "", 0, 0, 1 + Len(done), 0)
            /\ UNCHANGED <<cells, nextPageId, nextCellId>>

UpdatePage(pageId, title, parentId) == putPage(pageId, title, parentId, 0)

\* a pages table whose parent_id has no ON DELETE CASCADE: only the named rows go
onDeleteCascade_RowOnly(pg, gone) == gone

RECURSIVE onDeleteCascade(_, _)
\* FOREIGN KEY (parent_id) REFERENCES pages(id) ON DELETE CASCADE: the rows that
\* go when the rows of `gone` go
onDeleteCascade(pg, gone) ==
    LET more == {c \in DOMAIN pg : c \notin gone /\ pg[c].parent_id \in gone}
    IN IF more = {} THEN gone ELSE onDeleteCascade(pg, gone \cup more)

\* FOREIGN KEY (page_id) REFERENCES pages(id) ON DELETE CASCADE
cellsOnDeleteCascade(cs, gone) ==
    Restrict(cs, {c \in DOMAIN cs : cs[c].page_id \notin gone})

DeletePage(pageId) ==
    IF pageId \notin DOMAIN pages
    THEN /\ last' = Resp("deletePage", 404, "page", 0, 0, 0, 0)
         /\ UNCHANGED <<pages, cells, nextPageId, nextCellId>>
    ELSE LET gone == onDeleteCascade(pages, {pageId})
         IN /\ pages' = Restrict(pages, DOMAIN pages \ gone)
            /\ cells' = cellsOnDeleteCascade(cells, gone)
            /\ last' = Resp("deletePage", 204, "", 0, 0, Cardinality(gone), 0)
            /\ UNCHANGED <<nextPageId, nextCellId>>

\* ------------------------------------------------------------- cell store
AllowedTypes_AndList == {"header", "subheader", "text", "table", "ranking", "list"}

\* ['header', 'subheader', 'text', 'table', 'ranking'].includes(type)
AllowedTypes == {"header", "subheader", "text", "table", "ranking"}
\* CHECK(type IN ('header', 'subheader', 'text'))
StoreTypes == {"header", "subheader", "text"}

TypeInputs == {"text", "ranking", ""}
OrderInputs == {UNDEF, 0, 2}
CellIdParams == 1..MaxCellId
IdListsOf(n) == [1..n -> CellIdParams]

IdLists == UNION {IdListsOf(n) : n \in 0..MaxIds}

\* getDbFromPage: 'main' stands for page 0 and is not looked up
PageFound(pageId) == pageId = MAIN \/ pageId \in DOMAIN pages
TargetPageId(pageId) == IF pageId = MAIN THEN 0 ELSE pageId

CellsOf(cs, pageId) == {c \in DOMAIN cs : cs[c].page_id = pageId}

\* SELECT MAX(order_index) ... WHERE page_id = ?  (NULL over no rows)
MaxOrder(cs, pageId) ==
    IF CellsOf(cs, pageId) = {} THEN NULL
    ELSE CHOOSE m \in {cs[c].order_index : c \in CellsOf(cs, pageId)} :
             \A c \in CellsOf(cs, pageId) : cs[c].order_index <= m

\* (maxOrder.max || -1) + 1
appendIndex(max) == (IF max = NULL \/ max = 0 THEN -1 ELSE max) + 1

CreateCell(pageId, type, content, orderIndex) ==
    /\ nextCellId <= MaxCellId
    /\ IF ~PageFound(pageId)
       THEN /\ last' = Resp("createCell", 404, "page", 0, 0, 0, 0)
            /\ UNCHANGED <<pages, cells, nextPageId, nextCellId>>
       ELSE IF type = "" \/ type \notin AllowedTypes
       THEN /\ last' = Resp("createCell", 400, "type", 0, 0, 0, 0)
            /\ UNCHANGED <<pages, cells, nextPageId, nextCellId>>
       ELSE LET finalOrderIndex ==
                    IF orderIndex = UNDEF
                    THEN appendIndex(MaxOrder(cells, TargetPageId(pageId)))
                    ELSE orderIndex
            IN IF type \notin StoreTypes \/ TargetPageId(pageId) \notin DOMAIN pages
               THEN /\ last' = Resp("createCell", 500, "store", 0, 0, 0, 0)
                    /\ UNCHANGED <<pages, cells, nextPageId, nextCellId>>
               ELSE /\ cells' = cells @@ (nextCellId :>
                                   [page_id |-> TargetPageId(pageId), type |-> type,
                                    content |-> content, order_index |-> finalOrderIndex])
                    /\ nextCellId' = nextCellId + 1
                    /\ last' = Resp("createCell", 201, "", TargetPageId(pageId), 0, 1, 0)
                    /\ UNCHANGED <<pages, nextPageId>>

DeleteCell(cellId) ==
    IF cellId \notin DOMAIN cells
    THEN /\ last' = Resp("deleteCell", 404, "cell", 0, 0, 0, 0)
         /\ UNCHANGED <<pages, cells, nextPageId, nextCellId>>
    ELSE /\ cells' = Restrict(cells, DOMAIN cells \ {cellId})
         /\ last' = Resp("deleteCell", 204, "", cellId, 0, 1, 0)
         /\ UNCHANGED <<pages, nextPageId, nextCellId>>

\* a field absent from the request body (undefined)
NoType == "undefined"
NoContent == <<"undefined">>
UpdateTypeInputs == {NoType, "header", "ranking", "list", ""}
UpdateContentInputs == {NoContent, <<"A">>}
CreateTypeInputs == TypeInputs \cup {"list"}

UpdateCell_ContentFirst(cellId, type, content) ==
    IF cellId \notin DOMAIN cells
    THEN /\ last' = Resp("updateCell", 404, "cell", 0, 0, 0, 0)
         /\ UNCHANGED <<pages, cells, nextPageId, nextCellId>>
    ELSE /\ cells' = IF content # NoContent
                     THEN [cells EXCEPT ![cellId].content = content]
                     ELSE cells
         /\ last' = IF type # NoType /\ type \notin AllowedTypes
                    THEN Resp("updateCell", 400, "type", cellId, 0, 0, 0)
                    ELSE Resp("updateCell", 200, "", cellId, 0, 1, 0)
         /\ UNCHANGED <<pages, nextPageId, nextCellId>>

\* PUT /cells/:cellId
UpdateCell(cellId, type, content) ==
    IF cellId \notin DOMAIN cells
    THEN /\ last' = Resp("updateCell", 404, "cell", 0, 0, 0, 0)
         /\ UNCHANGED <<pages, cells, nextPageId, nextCellId>>
    ELSE IF type # NoType /\ type \notin AllowedTypes
    THEN /\ last' = Resp("updateCell", 400, "type", cellId, 0, 0, 0)
         /\ UNCHANGED <<pages, cells, nextPageId, nextCellId>>
    ELSE IF type = NoType /\ content = NoContent
    THEN /\ last' = Resp("updateCell", 400, "updates", cellId, 0, 0, 0)
         /\ UNCHANGED <<pages, cells, nextPageId, nextCellId>>
    ELSE IF type # NoType /\ type \notin StoreTypes
    THEN /\ last' = Resp("updateCell", 500, "store", cellId, 0, 0, 0)
         /\ UNCHANGED <<pages, cells, nextPageId, nextCellId>>
    ELSE /\ cells' = [cells EXCEPT
                         ![cellId].type = IF type # NoType THEN type ELSE @,
                         ![cellId].content = IF content # NoContent THEN content ELSE @]
         /\ last' = Resp("updateCell", 200, "", cellId, 0, 1, 0)
         /\ UNCHANGED <<pages, nextPageId, nextCellId>>

\* UPDATE cells SET order_index = ? WHERE id = ?
Matches_AnyPage(cs, cellId, targetPageId) == cellId \in DOMAIN cs

\* UPDATE cells SET order_index = ? WHERE id = ? AND page_id = ?
Matches(cs, cellId, targetPageId) ==
    cellId \in DOMAIN cs /\ cs[cellId].page_id = targetPageId

RECURSIVE reorderTransaction_OneBased(_, _, _, _)
\* ids.forEach((cellId, index) => updateStmt.run(index + 1, cellId, targetPageId))
reorderTransaction_OneBased(cs, ids, index, targetPageId) ==
    IF ids = <<>> THEN cs
    ELSE reorderTransaction_OneBased(
             IF Head(ids) \in DOMAIN cs /\ cs[Head(ids)].page_id = targetPageId
             THEN [cs EXCEPT ![Head(ids)].order_index = index + 1] ELSE cs,
             Tail(ids), index + 1, targetPageId)

RECURSIVE reorderTransaction_SameIndex(_, _, _, _)
\* ids.forEach((cellId) => updateStmt.run(0, cellId, targetPageId))
reorderTransaction_SameIndex(cs, ids, index, targetPageId) ==
    IF ids = <<>> THEN cs
    ELSE reorderTransaction_SameIndex(
             IF Head(ids) \in DOMAIN cs /\ cs[Head(ids)].page_id = targetPageId
             THEN [cs EXCEPT ![Head(ids)].order_index = index] ELSE cs,
             Tail(ids), index, targetPageId)

RECURSIVE reorderTransaction(_, _, _, _)
\* ids.forEach((cellId, index) => updateStmt.run(index, cellId, targetPageId))
reorderTransaction(cs, ids, index, targetPageId) ==
    IF ids = <<>> THEN cs
    ELSE reorderTransaction(
             IF Matches(cs, Head(ids), targetPageId)
             THEN [cs EXCEPT ![Head(ids)].order_index = index] ELSE cs,
             Tail(ids), index + 1, targetPageId)

\* router.put('/:projectId/pages/:pageId/cells/reorder').  failAt = 0: the store
\* executes every statement; failAt = j > 0: the j-th UPDATE throws, and
\* db.transaction rolls the earlier ones back.
putReorder(pageId, cellIds, failAt) ==
    IF ~PageFound(pageId)
    THEN /\ last' = Resp("reorderCells", 404, "page", 0, 0, 0, 0)
         /\ UNCHANGED <<pages, cells, nextPageId, nextCellId>>
    ELSE IF failAt >= 1 /\ failAt <= Len(cellIds)
    THEN /\ last' = Resp("reorderCells", 500, "store", 0, 0, 0, 0)
         /\ UNCHANGED <<pages, cells, nextPageId, nextCellId>>
    ELSE LET matched == {i \in 1..Len(cellIds) :
                            Matches(cells, cellIds[i], TargetPageId(pageId))}
         IN /\ last' = Resp("reorderCells", 200, "", TargetPageId(pageId), Len(cellIds),
                            Cardinality({cellIds[i] : i \in matched}),
                            Len(cellIds) - Cardinality(matched))
            /\ cells' = reorderTransaction(cells, cellIds, 0, TargetPageId(pageId))
            /\ UNCHANGED <<pages, nextPageId, nextCellId>>

ReorderCells(pageId, cellIds) == putReorder(pageId, cellIds, 0)

\* ------------------------------------------------------- auto-link scan
\* The markup is a sequence of characters; the two tags the scan writes are one
\* element each.  A tag starts with '<' and ends with '>', which are not word
\* characters, and holds no capital letter, so for the two patterns of the scan
\* it is one character that is neither a word character nor white space.
LinkClose == "</a>"
\* `<a href="#" class="wiki-link" data-page-id="${matchingPage.id}">`
LinkOpen(id) == IF id = 1 THEN "<a 1>" ELSE IF id = 2 THEN "<a 2>" ELSE "<a 3>"
\* `<span class="temp-link-marker">` and its end tag
MarkerOpen == "<span>"
MarkerClose == "</span>"

LinkIds == 1..3
LinkOpens == {LinkOpen(id) : id \in LinkIds}
Tags == LinkOpens \cup {LinkClose, MarkerOpen, MarkerClose}
\* the data-page-id of a link start tag
LinkTarget(tag) == CHOOSE id \in LinkIds : LinkOpen(id) = tag

\* the end tags of the open elements from the top of the stack down to and
\* including the topmost element named name; the stack holds "a" and "span"
RECURSIVE closeThrough(_, _)
closeThrough(stack, name) ==
    LET top == stack[Len(stack)]
        endTag == IF top = "a" THEN LinkClose ELSE MarkerClose
    IN IF top = name THEN <<endTag>>
       ELSE <<endTag>> \o closeThrough(SubSeq(stack, 1, Len(stack) - 1), name)

\* the stack without those elements
RECURSIVE popThrough(_, _)
popThrough(stack, name) ==
    IF stack[Len(stack)] = name THEN SubSeq(stack, 1, Len(stack) - 1)
    ELSE popThrough(SubSeq(stack, 1, Len(stack) - 1), name)

OnStack(stack, name) == \E i \in 1..Len(stack) : stack[i] = name

RECURSIVE parseFrom(_, _, _)
\* what the content element serializes after `innerHTML = s`: the HTML parser
\* reads s from token i on with the open elements of stack.  A start tag of a
\* link inside a link first closes the open link (and what is open in it); an
\* end tag with no open element of its name is ignored; the end of the input
\* closes what is open.
parseFrom(s, i, stack) ==
    IF i > Len(s)
    THEN (IF stack = <<>> THEN <<>> ELSE closeThrough(stack, stack[1]))
    ELSE LET t == s[i]
         IN IF t \in LinkOpens
            THEN (IF OnStack(stack, "a")
                  THEN closeThrough(stack, "a") \o <<t>>
                           \o parseFrom(s, i + 1, Append(popThrough(stack, "a"), "a"))
                  ELSE <<t>> \o parseFrom(s, i + 1, Append(stack, "a")))
            ELSE IF t = MarkerOpen
            THEN <<t>> \o parseFrom(s, i + 1, Append(stack, "span"))
            ELSE IF t = LinkClose
            THEN (IF OnStack(stack, "a")
                  THEN closeThrough(stack, "a") \o parseFrom(s, i + 1, popThrough(stack, "a"))
                  ELSE parseFrom(s, i + 1, stack))
            ELSE IF t = MarkerClose
            THEN (IF OnStack(stack, "span")
                  THEN closeThrough(stack, "span")
                           \o parseFrom(s, i + 1, popThrough(stack, "span"))
                  ELSE parseFrom(s, i + 1, stack))
            ELSE <<t>> \o parseFrom(s, i + 1, stack)

\* element.innerHTML = s; element.innerHTML
innerHTML(s) == parseFrom(s, 1, <<>>)

\* node.textContent of the markup s
textContent(s) == SelectSeq(s, LAMBDA t : t \notin Tags)

\* the position of the first token of s from i on that is in set T, Len(s) + 1
\* when there is none
RECURSIVE firstIn(_, _, _)
firstIn(s, i, T) ==
    IF i > Len(s) \/ s[i] \in T THEN i ELSE firstIn(s, i + 1, T)

RECURSIVE LinksFrom(_, _)
\* the links of the serialized markup s from token i on, in document order, as
\* <<data-page-id, textContent>>
LinksFrom(s, i) ==
    LET open == firstIn(s, i, LinkOpens)
        close == firstIn(s, open + 1, {LinkClose})
    IN IF open > Len(s) THEN <<>>
       ELSE <<<<LinkTarget(s[open]), textContent(SubSeq(s, open + 1, close - 1))>>>>
                \o LinksFrom(s, close + 1)

Links(s) == LinksFrom(s, 1)

Occurrences(seq, x) == Cardinality({i \in 1..Len(seq) : seq[i] = x})

Capitals == {"A", "B", "M", "S"}
SmallLetters == {"a", "b", "m", "s"}
\* \w
IsWordChar(c) == c \in Capitals \cup SmallLetters

\* \b between s[i] and s[i + 1]; the ends of the string count as non-word
WordBoundary(s, i) ==
    LET left == i >= 1 /\ IsWordChar(s[i])
        right == i + 1 <= Len(s) /\ IsWordChar(s[i + 1])
    IN left # right

\* \b([A-Z][A-Z\s]+[A-Z])\b tried at position p: the ends e the match can have
CapsEnds(s, p) ==
    {e \in (p + 2)..Len(s) :
        /\ s[e] \in Capitals
        /\ WordBoundary(s, e)
        /\ \A j \in (p + 1)..(e - 1) : s[j] \in Capitals \cup Whitespace}

\* the match at p, as its end: [A-Z\s]+ is greedy, so the furthest end; 0 when
\* the pattern does not match at p
CapsMatchAt(s, p) ==
    IF s[p] \in Capitals /\ WordBoundary(s, p - 1) /\ CapsEnds(s, p) # {}
    THEN CHOOSE e \in CapsEnds(s, p) : \A f \in CapsEnds(s, p) : f <= e
    ELSE 0

RECURSIVE matchAll(_, _)
\* [...html.matchAll(allCapsPattern)] from position p on: match[1] of each match
matchAll(s, p) ==
    IF p > Len(s) THEN <<>>
    ELSE LET e == CapsMatchAt(s, p)
         IN IF e = 0 THEN matchAll(s, p + 1)
            ELSE <<SubSeq(s, p, e)>> \o matchAll(s, e + 1)

RECURSIVE trimStart(_)
trimStart(s) == IF s # <<>> /\ Head(s) \in Whitespace THEN trimStart(Tail(s)) ELSE s

RECURSIVE trimEnd(_)
trimEnd(s) ==
    IF s # <<>> /\ s[Len(s)] \in Whitespace THEN trimEnd(SubSeq(s, 1, Len(s) - 1)) ELSE s

trim(s) == trimEnd(trimStart(s))

\* allPages.find(p => p.title.toUpperCase() === phrase)
findMatchingPage_AnyPage(allPages, phrase, pageId) ==
    LET hits == {i \in 1..Len(allPages) : toUpperCase(allPages[i][2]) = phrase}
    IN IF hits = {} THEN 0 ELSE CHOOSE i \in hits : \A j \in hits : i <= j

\* allPages.find(p => p.title.toUpperCase() === phrase && p.id !== pageId):
\* the index of the first such page, 0 when there is none
findMatchingPage(allPages, phrase, pageId) ==
    LET hits == {i \in 1..Len(allPages) :
                    toUpperCase(allPages[i][2]) = phrase /\ allPages[i][1] # pageId}
    IN IF hits = {} THEN 0 ELSE CHOOSE i \in hits : \A j \in hits : i <= j

RECURSIVE replaceAll(_, _, _, _)
\* newHtml.replace(new RegExp(`\\b${escapedPhrase}\\b`, 'g'), linkHtml), from
\* position p on
replaceAll(s, phrase, linkHtml, p) ==
    IF p > Len(s) THEN <<>>
    ELSE IF /\ p + Len(phrase) - 1 <= Len(s)
            /\ SubSeq(s, p, p + Len(phrase) - 1) = phrase
            /\ WordBoundary(s, p - 1)
            /\ WordBoundary(s, p + Len(phrase) - 1)
    THEN linkHtml \o replaceAll(s, phrase, linkHtml, p + Len(phrase))
    ELSE <<s[p]>> \o replaceAll(s, phrase, linkHtml, p + 1)

RECURSIVE linkMatches(_, _, _, _)
\* for (const match of matches) { ... }
linkMatches(newHtml, matches, allPages, pageId) ==
    IF matches = <<>> THEN newHtml
    ELSE LET phrase == trim(Head(matches))
             found == findMatchingPage(allPages, phrase, pageId)
             linkHtml == <<LinkOpen(allPages[found][1])>> \o toCamelCase(phrase)
                             \o <<LinkClose>>
         IN linkMatches(IF found # 0 THEN replaceAll(newHtml, phrase, linkHtml, 1)
                        ELSE newHtml,
                        Tail(matches), allPages, pageId)

\* the newHtml handleInput computes from the innerHTML
scan(html, allPages, pageId) == linkMatches(html, matchAll(html, 1), allPages, pageId)

\* what handleInput leaves in the content element: the parsed newHtml when it
\* differs from the markup read
scanned(html, allPages, pageId) ==
    LET newHtml == scan(html, allPages, pageId)
    IN IF newHtml # html THEN innerHTML(newHtml) ELSE html

\* handleInput on a text, header or subheader cell
HandleInput ==
    /\ editor.scans < MaxScans
    /\ editor' = [editor EXCEPT
                     !.html = scanned(editor.html, editor.allPages, editor.pageId),
                     !.scans = editor.scans + 1,
                     !.made = Len(Links(scanned(editor.html, editor.allPages, editor.pageId)))
                                  - Len(Links(editor.html))]
    /\ UNCHANGED <<pages, cells, nextPageId, nextCellId, last, meta>>

ContentChars == {"A", "B", "b", " "}
PlainContents == UNION {[1..n -> ContentChars] : n \in 0..MaxContentLen}
\* contents with a link placed earlier, by a scan or from the link menu
LinkLabels == {<<"A", " ", "B">>, <<"A", "b", "a">>, <<"A", "B", "A">>, <<"b">>}
LinkedContents ==
    {pre \o <<LinkOpen(id)>> \o label \o <<LinkClose>> \o post :
        pre \in {<<>>, <<"A", " ">>}, post \in {<<>>, <<" ", "B">>, <<"b">>},
        id \in 1..2, label \in LinkLabels}
Contents == PlainContents \cup LinkedContents
\* titles a page can have: not blank
PageTitles == {<<"A", " ", "B">>, <<"a", "b", "a">>, <<"B", "b">>}
PageLists == {<<<<1, t1>>, <<2, t2>>>> : t1 \in PageTitles, t2 \in PageTitles}

\* ------------------------------------------------------------ page reads
\* the code unit of a character (BINARY collation)
CharCode(c) ==
    CASE c = " " -> 32 [] c = ">" -> 62 [] c = "A" -> 65 [] c = "B" -> 66
      [] c = "M" -> 77 [] c = "S" -> 83 [] c = "a" -> 97 [] c = "b" -> 98
      [] c = "m" -> 109 [] c = "s" -> 115 [] OTHER -> 127

RECURSIVE titleLessEq(_, _)
titleLessEq(s, t) ==
    IF s = <<>> THEN TRUE
    ELSE IF t = <<>> THEN FALSE
    ELSE IF CharCode(s[1]) # CharCode(t[1]) THEN CharCode(s[1]) < CharCode(t[1])
    ELSE titleLessEq(Tail(s), Tail(t))

\* ORDER BY title: the orders of the rows ids that it allows (rows with the
\* same title come in any order)
OrderedByTitle(pg, ids) ==
    {rows \in [1..Cardinality(ids) -> ids] :
        /\ \A i, j \in DOMAIN rows : i # j => rows[i] # rows[j]
        /\ \A i, j \in DOMAIN rows : i < j => titleLessEq(pg[rows[i]].title, pg[rows[j]].title)}

\* GET /pages: SELECT * FROM pages WHERE id != 0 ORDER BY title
ListPages ==
    /\ \E rows \in OrderedByTitle(pages, DOMAIN pages \ {0}) :
          last' = Rows("listPages", rows, <<>>, <<>>)
    /\ UNCHANGED <<pages, cells, nextPageId, nextCellId>>

\* Fuse's score of text for the pattern, in thousandths: the share of the
\* pattern's characters that differ at the best place of the pattern in the
\* text, plus a hundredth for every character between that place and the
\* start of the text (location 0, distance 100); case is ignored
fuseErrors(pattern, text, at) ==
    Cardinality({i \in 1..Len(pattern) :
                    \/ at + i > Len(text)
                    \/ LowerOf(text[at + i]) # LowerOf(pattern[i])})

fuseScoreAt(pattern, text, at) ==
    (fuseErrors(pattern, text, at) * 1000) \div Len(pattern) + at * 10

fuseScore(pattern, text) ==
    LET places == 0..(IF Len(text) > Len(pattern) THEN Len(text) - Len(pattern) ELSE 0)
    IN CHOOSE sc \in {fuseScoreAt(pattern, text, at) : at \in places} :
           \A at \in places : sc <= fuseScoreAt(pattern, text, at)

RECURSIVE fuseSorted(_, _, _)
\* the ids by ascending score, in the order of the collection among equals
fuseSorted(pg, ids, pattern) ==
    IF ids = {} THEN <<>>
    ELSE LET best == CHOOSE x \in ids : \A y \in ids :
                         \/ fuseScore(pattern, pg[x].title) < fuseScore(pattern, pg[y].title)
                         \/ /\ fuseScore(pattern, pg[x].title) = fuseScore(pattern, pg[y].title)
                            /\ x <= y
         IN <<best>> \o fuseSorted(pg, ids \ {best}, pattern)

\* new Fuse(pages, { keys: ['title'], threshold }).search(pattern), as ids
fuseSearch(pg, ids, pattern, threshold) ==
    fuseSorted(pg, {x \in ids : fuseScore(pattern, pg[x].title) <= threshold}, pattern)

SearchThreshold == 300
SuggestThreshold == 400
SuggestLimit == 10

RECURSIVE includes(_, _)
\* whether string s holds string q, case ignored (LIKE '%q%')
includes(s, q) ==
    IF Len(s) < Len(q) THEN FALSE
    ELSE IF toLowerCase(SubSeq(s, 1, Len(q))) = toLowerCase(q) THEN TRUE
    ELSE includes(Tail(s), q)

\* GET /search?q=
SearchPages(q) ==
    /\ IF IsBlank(q)
       THEN last' = Rows("searchPages", <<>>, <<>>, <<>>)
       ELSE LET query == toLowerCase(trim(q))
                titleResults == fuseSearch(pages, DOMAIN pages, query, SearchThreshold)
                matched == {cells[c].page_id : c \in {d \in DOMAIN cells :
                               /\ cells[d].page_id \in DOMAIN pages
                               /\ includes(cells[d].content, query)}}
                contentResults ==
                    SortedSeq({p \in matched :
                                  \A i \in 1..Len(titleResults) : titleResults[i] # p})
            IN last' = Rows("searchPages", titleResults, <<>>, contentResults)
    /\ UNCHANGED <<pages, cells, nextPageId, nextCellId>>

\* the page ids a client may name as currentPageId, and no id (null)
CurrentPageInputs == (0..MaxPageId) \cup {NULL}

\* the list POST /suggest-links answers with
suggestLinks(pg, text, currentPageId) ==
    IF IsBlank(text) THEN <<>>
    ELSE LET excluded == IF Truthy(currentPageId) THEN currentPageId ELSE -1
             found == fuseSearch(pg, {p \in DOMAIN pg : p # excluded},
                                 trim(text), SuggestThreshold)
         IN SubSeq(found, 1, IF Len(found) < SuggestLimit THEN Len(found) ELSE SuggestLimit)

\* POST /suggest-links
SuggestLinks(text, currentPageId) ==
    /\ LET rows == suggestLinks(pages, text, currentPageId)
       IN last' = Rows("suggestLinks", rows,
                       [i \in 1..Len(rows) |-> fuseScore(trim(text), pages[rows[i]].title)],
                       <<>>)
    /\ UNCHANGED <<pages, cells, nextPageId, nextCellId>>

SearchTexts == {<<>>, <<" ">>, <<"m">>, <<"A">>, <<"b", " ">>, <<"a", "b">>}

\* ------------------------------------------------------- link interaction
StartTags == LinkOpens \cup {MarkerOpen}
EndTags == {LinkClose, MarkerClose}

RECURSIVE strayEndTags(_, _, _)
\* the end tags of r from token i on whose element starts before r (d: the
\* elements of r open at i)
strayEndTags(r, i, d) ==
    IF i > Len(r) THEN <<>>
    ELSE IF r[i] \in StartTags THEN strayEndTags(r, i + 1, d + 1)
    ELSE IF r[i] \in EndTags
    THEN (IF d = 0 THEN <<r[i]>> \o strayEndTags(r, i + 1, 0)
          ELSE strayEndTags(r, i + 1, d - 1))
    ELSE strayEndTags(r, i + 1, d)

RECURSIVE strayStartTags(_, _, _)
\* the start tags of r up to token i whose element ends after r
strayStartTags(r, i, d) ==
    IF i < 1 THEN <<>>
    ELSE IF r[i] \in EndTags THEN strayStartTags(r, i - 1, d + 1)
    ELSE IF r[i] \in StartTags
    THEN (IF d = 0 THEN strayStartTags(r, i - 1, 0) \o <<r[i]>>
          ELSE strayStartTags(r, i - 1, d - 1))
    ELSE strayStartTags(r, i - 1, d)

\* selection.toString().trim() of the range from gap a to gap b of html (gap g
\* is after token g)
selectionText(html, a, b) == trim(textContent(SubSeq(html, a + 1, b)))

\* range.deleteContents(); range.insertNode(marker): the text of the range and
\* the elements wholly in it go; an element partly in it keeps its tags; the
\* marker is put where the range collapses, after the elements that end in the
\* range and before those that start in it
wrapSelection(html, a, b) ==
    LET r == SubSeq(html, a + 1, b)
    IN SubSeq(html, 1, a) \o strayEndTags(r, 1, 0)
           \o <<MarkerOpen>> \o selectionText(html, a, b) \o <<MarkerClose>>
           \o strayStartTags(r, Len(r), 0) \o SubSeq(html, b + 1, Len(html))

RECURSIVE elementEnd(_, _, _)
\* the position of the end tag of the element whose start tag is before token
\* i, with d elements open in it at i
elementEnd(s, i, d) ==
    IF i > Len(s) THEN i
    ELSE IF s[i] \in StartTags THEN elementEnd(s, i + 1, d + 1)
    ELSE IF s[i] \in EndTags
    THEN (IF d = 0 THEN i ELSE elementEnd(s, i + 1, d - 1))
    ELSE elementEnd(s, i + 1, d)

\* cleanupMarker(html): every marker is replaced by its children
cleanupMarker(html) ==
    SelectSeq(innerHTML(html), LAMBDA t : t \notin {MarkerOpen, MarkerClose})

HasMarker(html) == \E i \in 1..Len(html) : html[i] = MarkerOpen

\* marker.replaceWith(link) on tempDiv.querySelector('.temp-link-marker'), and
\* tempDiv.innerHTML
replaceMarker(html, id, text) ==
    LET doc == innerHTML(html)
        i == firstIn(doc, 1, {MarkerOpen})
        j == elementEnd(doc, i + 1, 0)
    IN SubSeq(doc, 1, i - 1) \o <<LinkOpen(id)>> \o text \o <<LinkClose>>
           \o SubSeq(doc, j + 1, Len(doc))

RECURSIVE matchingLink_Last(_, _, _, _)
matchingLink_Last(doc, i, id, text) ==
    LET open == firstIn(doc, i, {LinkOpen(id)})
        close == elementEnd(doc, open + 1, 0)
        later == matchingLink_Last(doc, open + 1, id, text)
    IN IF open > Len(doc) THEN open
       ELSE IF later <= Len(doc) THEN later
       ELSE IF textContent(SubSeq(doc, open + 1, close - 1)) = text THEN open
       ELSE later

RECURSIVE matchingLink(_, _, _, _)
\* for (let link of links) if (link.textContent === text): the position of the
\* start tag of the first link from token i on with that target and text,
\* Len(doc) + 1 when there is none
matchingLink(doc, i, id, text) ==
    LET open == firstIn(doc, i, {LinkOpen(id)})
        close == elementEnd(doc, open + 1, 0)
    IN IF open > Len(doc) THEN open
       ELSE IF textContent(SubSeq(doc, open + 1, close - 1)) = text THEN open
       ELSE matchingLink(doc, open + 1, id, text)

\* link.replaceWith(document.createTextNode(text)) on that link, and
\* tempDiv.innerHTML
unlinkFirst(html, id, text) ==
    LET doc == innerHTML(html)
        open == matchingLink(doc, 1, id, text)
        close == elementEnd(doc, open + 1, 0)
    IN IF open > Len(doc) THEN doc
       ELSE SubSeq(doc, 1, open - 1) \o text \o SubSeq(doc, close + 1, Len(doc))

\* setContent(x) and the render that follows: React assigns innerHTML when the
\* __html it is given differs from the one of the last render
setContent(e, x) ==
    [e EXCEPT !.content = x,
              !.html = IF x # e.content THEN innerHTML(x) ELSE e.html]

\* onUpdate(cell.id, { content: x }): the updateCell request and what it stores
onUpdate(e, x) == [e EXCEPT !.saved = x, !.sent = e.sent + 1]

\* the component as a handler finds it
entered(e) == [e EXCEPT !.sent = 0]

\* the link menu leaves the tree: its state is dropped, and the answers to
\* its requests find no component
unmountMenu(e) ==
    [e EXCEPT !.suggestions = <<>>, !.inflight = {}, !.issued = 0,
              !.searchText = <<>>, !.shown = 0]

TypedChars == {"B"}

\* a key press in the content element: the character lands at the end of the
\* content, and the input event runs handleInput
TypeChar(c) ==
    /\ editor.typed < MaxTyped
    /\ ~editor.showCreatePageModal
    /\ LET html == editor.html \o <<c>>
           newHtml == scanned(html, editor.allPages, editor.pageId)
       IN editor' = [entered(editor) EXCEPT !.html = newHtml,
                                   !.made = Len(Links(newHtml)) - Len(Links(html)),
                                   !.typed = editor.typed + 1,
                                   !.clean = FALSE,
                                   !.ev = "input"]
    /\ UNCHANGED <<pages, cells, nextPageId, nextCellId, last, meta>>

\* handleContextMenu on a link of the content, the k-th in document order
ContextMenuLink(k) ==
    /\ editor.menus < MaxMenus
    /\ ~editor.showCreatePageModal
    /\ k \in 1..Len(Links(editor.html))
    /\ editor' = [entered(editor) EXCEPT !.selectedText = Links(editor.html)[k][2],
                                !.editingLinkNode = Links(editor.html)[k],
                                !.isContextMenuOpen = TRUE,
                                !.showContextMenu = TRUE,
                                !.menus = editor.menus + 1,
                                !.ev = "contextmenu"]
    /\ UNCHANGED <<pages, cells, nextPageId, nextCellId, last, meta>>

\* handleContextMenu outside the links, with the selection from gap a to gap b
ContextMenuSelection(a, b) ==
    /\ editor.menus < MaxMenus
    /\ ~editor.showCreatePageModal
    /\ 0 <= a /\ a < b /\ b <= Len(editor.html)
    /\ selectionText(editor.html, a, b) # <<>>
    /\ LET marked == wrapSelection(editor.html, a, b)
       IN editor' = [setContent([entered(editor) EXCEPT !.html = marked], marked)
                        EXCEPT !.selectedText = selectionText(editor.html, a, b),
                               !.editingLinkNode = <<>>,
                               !.isContextMenuOpen = TRUE,
                               !.showContextMenu = TRUE,
                               !.menus = editor.menus + 1,
                               !.before = editor.html,
                               !.clean = TRUE,
                               !.ev = "contextmenu"]
    /\ UNCHANGED <<pages, cells, nextPageId, nextCellId, last, meta>>

\* onClose of the link menu: a click outside it
CloseMenu ==
    /\ editor.showContextMenu
    /\ editor' = [unmountMenu(setContent(entered(editor), cleanupMarker(editor.html)))
                     EXCEPT !.showContextMenu = FALSE,
                            !.isContextMenuOpen = FALSE,
                            !.editingLinkNode = <<>>,
                            !.ev = "close"]
    /\ UNCHANGED <<pages, cells, nextPageId, nextCellId, last, meta>>

linkMarker_Append(e, id) ==
    LET newHtml == IF HasMarker(e.html)
                   THEN replaceMarker(e.html, id, e.selectedText)
                   ELSE e.html \o <<LinkOpen(id)>> \o e.selectedText \o <<LinkClose>>
    IN onUpdate(setContent(e, newHtml), newHtml)

\* what handleLinkSelect and handleConfirmCreatePage do to the content for the
\* page id
linkMarker(e, id) ==
    IF HasMarker(e.html)
    THEN onUpdate(setContent(e, replaceMarker(e.html, id, e.selectedText)),
                  replaceMarker(e.html, id, e.selectedText))
    ELSE setContent(e, cleanupMarker(e.html))

\* handleLinkSelect(page), page one of the menu's suggestions
LinkSelect(i) ==
    /\ editor.showContextMenu
    /\ i \in 1..Len(editor.allPages)
    /\ editor' = [unmountMenu(linkMarker(entered(editor), editor.allPages[i][1]))
                     EXCEPT !.showContextMenu = FALSE,
                            !.isContextMenuOpen = FALSE,
                            !.ev = "select"]
    /\ UNCHANGED <<pages, cells, nextPageId, nextCellId, last, meta>>

\* handleCreateNewPage
CreateNewPage ==
    /\ editor.showContextMenu
    /\ editor' = [unmountMenu(entered(editor)) EXCEPT !.showContextMenu = FALSE,
                                !.showCreatePageModal = TRUE,
                                !.ev = "createNew"]
    /\ UNCHANGED <<pages, cells, nextPageId, nextCellId, last, meta>>

\* the options of the dialog's parent select
ParentOptions ==
    {NULL} \cup {editor.allPages[i][1] : i \in {j \in 1..Len(editor.allPages) :
                                                   editor.allPages[j][1] # editor.pageId}}

\* onChange of the parent select
ChooseParent(p) ==
    /\ editor.showCreatePageModal
    /\ p \in ParentOptions
    /\ p # editor.newPageParent
    /\ editor' = [entered(editor) EXCEPT !.newPageParent = p, !.ev = "parent"]
    /\ UNCHANGED <<pages, cells, nextPageId, nextCellId, last, meta>>

\* the dialog's Cancel button, or a click on its overlay
CancelCreatePage ==
    /\ editor.showCreatePageModal
    /\ editor' = [entered(editor) EXCEPT !.showCreatePageModal = FALSE,
                                !.isContextMenuOpen = FALSE,
                                !.ev = "cancel"]
    /\ UNCHANGED <<pages, cells, nextPageId, nextCellId, last, meta>>

createFailed_KeepsMarker(e) ==
    [e EXCEPT !.isContextMenuOpen = FALSE, !.ev = "createFailed"]

\* the catch branch of handleConfirmCreatePage
createFailed(e) ==
    [setContent(e, cleanupMarker(e.html)) EXCEPT !.isContextMenuOpen = FALSE,
                                                 !.ev = "createFailed"]

\* handleConfirmCreatePage, the request answered by the server
ConfirmCreatePage ==
    /\ editor.showCreatePageModal
    /\ CreatePage(editor.selectedText, editor.newPageParent)
    /\ editor' =
          IF last'.status = 201
          THEN [linkMarker([entered(editor) EXCEPT !.allPages =
                                Append(editor.allPages, <<nextPageId, editor.selectedText>>)],
                           nextPageId)
                   EXCEPT !.showCreatePageModal = FALSE,
                          !.newPageParent = NULL,
                          !.isContextMenuOpen = FALSE,
                          !.ev = "created"]
          ELSE createFailed(entered(editor))
    /\ UNCHANGED meta

\* handleConfirmCreatePage, the request lost before it reaches the server
ConfirmCreatePageNoAnswer ==
    /\ editor.showCreatePageModal
    /\ editor' = createFailed(entered(editor))
    /\ UNCHANGED <<pages, cells, nextPageId, nextCellId, last, meta>>

\* handleUnlink
Unlink ==
    /\ editor.showContextMenu
    /\ editor.editingLinkNode # <<>>
    /\ LET newHtml == unlinkFirst(editor.html, editor.editingLinkNode[1],
                                  editor.editingLinkNode[2])
       IN editor' = [unmountMenu(onUpdate(setContent(entered(editor), newHtml), newHtml))
                        EXCEPT !.showContextMenu = FALSE,
                               !.isContextMenuOpen = FALSE,
                               !.editingLinkNode = <<>>,
                               !.ev = "unlink"]
    /\ UNCHANGED <<pages, cells, nextPageId, nextCellId, last, meta>>

\* handleBlur on a text cell, the focus leaving the cell
Blur ==
    /\ editor' =
          IF editor.isContextMenuOpen
          THEN editor
          ELSE IF editor.html # editor.content
          THEN [onUpdate(setContent(entered(editor), editor.html), editor.html)
                   EXCEPT !.ev = "blur"]
          ELSE [entered(editor) EXCEPT !.ev = "blur"]
    /\ UNCHANGED <<pages, cells, nextPageId, nextCellId, last, meta>>

EditorTitles == {<<"B", "B", "b">>}
EditorContents ==
    {<<"b", " ", "B", "B">>,
     <<"b", LinkOpen(1), "B", "b", LinkClose, " ">>,
     <<LinkOpen(1), "b", LinkClose, LinkOpen(1), "b", LinkClose>>}

\* ------------------------------------------------------------- projects
ProjectSlug == <<"b">>
ProjectIdParams == 1..MaxProjects
\* display names that make the directory name ProjectSlug, one that makes
\* another, and blank ones
DisplayNames == {<<"B">>, <<"b", " ">>, <<"!", "b">>, <<"A">>, <<" ">>, <<>>}

\* .replace(/[^a-z0-9]+/g, '-')
RECURSIVE dashRuns(_)
dashRuns(s) ==
    IF s = <<>> THEN <<>>
    ELSE IF s[1] \in {"a", "b", "m", "s"} THEN <<s[1]>> \o dashRuns(Tail(s))
    ELSE LET rest == dashRuns(Tail(s))
         IN  IF rest # <<>> /\ rest[1] = "-" THEN rest ELSE <<"-">> \o rest

\* .replace(/^-|-$/g, '')
trimDashes(s) ==
    LET t == IF s # <<>> /\ s[1] = "-" THEN Tail(s) ELSE s
    IN  IF t # <<>> /\ t[Len(t)] = "-" THEN SubSeq(t, 1, Len(t) - 1) ELSE t

\* the URL-safe name of POST /api/projects
slugify(displayName) == trimDashes(dashRuns(toLowerCase(displayName)))

\* the one project the page and cell requests of the other specifications
\* are made in
OneProject ==
    [projects |-> (1 :> [name |-> ProjectSlug, display_name |-> <<"B">>]), seq |-> 1]

CreateProject_UniqueDisplayName(displayName) ==
    /\ IF IsBlank(displayName)
       THEN /\ last' = Resp("createProject", 400, "Project name is required", 0, 0, 0, 0)
            /\ UNCHANGED meta
       ELSE IF \E id \in DOMAIN meta.projects : meta.projects[id].display_name = displayName
       THEN /\ last' = Resp("createProject", 409,
                            "Project with this name already exists", 0, 0, 0, 0)
            /\ UNCHANGED meta
       ELSE /\ meta.seq < MaxProjects
            /\ meta' = [projects |-> (meta.seq + 1 :> [name |-> slugify(displayName),
                                                       display_name |-> displayName])
                                     @@ meta.projects,
                        seq |-> meta.seq + 1]
            /\ last' = Resp("createProject", 201, "", meta.seq + 1, 0, 0, 0)
    /\ UNCHANGED <<pages, cells, nextPageId, nextCellId>>

\* POST /api/projects
CreateProject(displayName) ==
    /\ IF IsBlank(displayName)
       THEN /\ last' = Resp("createProject", 400, "Project name is required", 0, 0, 0, 0)
            /\ UNCHANGED meta
       ELSE LET name == slugify(displayName)
            IN  IF \E id \in DOMAIN meta.projects : meta.projects[id].name = name
                THEN /\ last' = Resp("createProject", 409,
                                     "Project with this name already exists", 0, 0, 0, 0)
                     /\ UNCHANGED meta
                ELSE /\ meta.seq < MaxProjects
                     /\ meta' = [projects |-> (meta.seq + 1 :> [name |-> name,
                                                                display_name |-> displayName])
                                              @@ meta.projects,
                                 seq |-> meta.seq + 1]
                     /\ last' = Resp("createProject", 201, "", meta.seq + 1, 0, 0, 0)
    /\ UNCHANGED <<pages, cells, nextPageId, nextCellId>>

\* DELETE /api/projects/:id: DELETE FROM projects WHERE id = ?
DeleteProject(id) ==
    /\ IF id \notin DOMAIN meta.projects
       THEN /\ last' = Resp("deleteProject", 404, "Project not found", 0, 0, 0, 0)
            /\ UNCHANGED meta
       ELSE /\ meta' = [meta EXCEPT !.projects = Restrict(@, DOMAIN @ \ {id})]
            /\ last' = Resp("deleteProject", 204, "", id, 0, 0, 0)
    /\ UNCHANGED <<pages, cells, nextPageId, nextCellId>>

\* getProjectDb: the connection kept for the name, or the file opened, with
\* CREATE TABLE IF NOT EXISTS and INSERT OR IGNORE of the row of id 0
getProjectDb(pg) ==
    IF 0 \in DOMAIN pg THEN pg
    ELSE (0 :> [title |-> MainTitle, parent_id |-> NULL, path |-> MainTitle]) @@ pg

\* GET /api/projects: every project's database is opened for its statistics;
\* n is the pageCount of the project listed
ListProjects ==
    /\ pages' = IF \E id \in DOMAIN meta.projects : meta.projects[id].name = ProjectSlug
                THEN getProjectDb(pages) ELSE pages
    /\ \E rows \in [1..Cardinality(DOMAIN meta.projects) -> DOMAIN meta.projects] :
          /\ \A i, j \in DOMAIN rows : i # j => rows[i] # rows[j]
          /\ last' = [Rows("listProjects", rows, <<>>, <<>>)
                         EXCEPT !.n = Cardinality(DOMAIN pages \ {0})]
    /\ UNCHANGED <<cells, nextPageId, nextCellId, meta>>

\* validateProject, then the route: a request made with a project id, once
\* the project's database was opened (of the projects, the one in the
\* directory ProjectSlug takes page and cell requests)
InProject(projectId, route) ==
    IF projectId \in DOMAIN meta.projects
    THEN /\ meta.projects[projectId].name = ProjectSlug
         /\ 0 \in DOMAIN pages
         /\ route
    ELSE /\ last' = Resp("validateProject", 404, "Project not found", 0, 0, 0, 0)
         /\ UNCHANGED <<pages, cells, nextPageId, nextCellId>>

\* ------------------------------------------------------------- link menu
\* the effect of LinkContextMenu on [searchText, projectId]: it runs when the
\* menu is mounted and when the text it is given changes
FetchSuggestions ==
    /\ editor.showContextMenu
    /\ editor.issued = 0 \/ editor.searchText # editor.selectedText
    /\ editor.issued < MaxQueries
    /\ editor' = [editor EXCEPT
                     !.issued = editor.issued + 1,
                     !.searchText = editor.selectedText,
                     !.inflight = editor.inflight
                                      \cup {[n |-> editor.issued + 1,
                                             text |-> editor.selectedText]},
                     !.ev = "fetch"]
    /\ UNCHANGED <<pages, cells, nextPageId, nextCellId, last, meta>>

\* fetchSuggestions after its await, the request answered:
\* setSuggestions(response.data)
FetchAnswered(q) ==
    /\ editor.showContextMenu
    /\ q \in editor.inflight
    /\ SuggestLinks(q.text, NULL)
    /\ editor' = [editor EXCEPT !.suggestions = last'.rows,
                                !.shown = q.n,
                                !.inflight = editor.inflight \ {q},
                                !.ev = "suggestions"]
    /\ UNCHANGED meta

\* fetchSuggestions after its await, the request failed: the catch branch
FetchFailed(q) ==
    /\ editor.showContextMenu
    /\ q \in editor.inflight
    /\ editor' = [editor EXCEPT !.inflight = editor.inflight \ {q},
                                !.ev = "fetchFailed"]
    /\ UNCHANGED <<pages, cells, nextPageId, nextCellId, last, meta>>

\* --------------------------------------------------------- page content
\* SELECT * FROM cells WHERE page_id = ? ORDER BY order_index: the orders of
\* the rows that it allows
orderedCells(cs, targetPageId) ==
    LET ids == CellsOf(cs, targetPageId)
    IN  {rows \in [1..Cardinality(ids) -> ids] :
            /\ \A i, j \in DOMAIN rows : i # j => rows[i] # rows[j]
            /\ \A i, j \in DOMAIN rows :
                  i < j => cs[rows[i]].order_index <= cs[rows[j]].order_index}

\* cells.findIndex(c => c.id === id), counted from 1; 0 for -1
findIndex(list, id) ==
    IF \E i \in 1..Len(list) : list[i] = id
    THEN CHOOSE i \in 1..Len(list) : list[i] = id /\ \A j \in 1..(i - 1) : list[j] # id
    ELSE 0

\* newCells.splice(insertIndex, 0, newCell), at is insertIndex counted from 1
splice(list, at, id) == SubSeq(list, 1, at - 1) \o <<id>> \o SubSeq(list, at, Len(list))

\* arrayMove(cells, oldIndex, newIndex)
arrayMove(list, from, to) ==
    LET without == SubSeq(list, 1, from - 1) \o SubSeq(list, from + 1, Len(list))
    IN  splice(without, to, list[from])

\* onCellsChange: loadPage, and the effect of PageContent on [page]
reloaded(e, cs) ==
    {[e EXCEPT !.cells = rows] : rows \in orderedCells(cs, TargetPageId(e.page))}

\* WikiPage.loadPage(id): GET /pages/:pageId, then setCells(page.cells)
LoadPage(pageId) ==
    /\ IF PageFound(pageId)
       THEN /\ last' = Resp("getPage", 200, "", TargetPageId(pageId), 0, 0, 0)
            /\ editor' \in reloaded([editor EXCEPT !.page = pageId, !.ev = "loadPage"], cells)
       ELSE /\ last' = Resp("getPage", 404, "page", 0, 0, 0, 0)
            /\ editor' = [editor EXCEPT !.ev = "loadPage"]
    /\ UNCHANGED <<pages, cells, nextPageId, nextCellId, meta>>

\* PageContent.handleAddCell
HandleAddCell(type) ==
    /\ editor.page # NULL
    /\ CreateCell(editor.page, type, <<>>, Len(editor.cells))
    /\ IF last'.status = 201
       THEN editor' \in reloaded([editor EXCEPT !.ev = "addCell"], cells')
       ELSE editor' = [editor EXCEPT !.ev = "addCell"]
    /\ UNCHANGED meta

\* handleInsertCell, step 2: the new order
handleInsertCell(list, targetCellId, position, newCell) ==
    LET targetIndex == findIndex(list, targetCellId)
        insertIndex == IF position = "before" THEN targetIndex ELSE targetIndex + 1
    IN  splice(list, insertIndex, newCell)

\* PageContent.handleInsertCell: the cell is created at the end, then the
\* order of the client's list with the new cell in it is sent to reorder
HandleInsertCell(targetCellId, position, type) ==
    /\ editor.page # NULL
    /\ nextCellId <= MaxCellId
    /\ LET targetPageId == TargetPageId(editor.page)
           created == cells @@ (nextCellId :>
                          [page_id |-> targetPageId, type |-> type, content |-> <<>>,
                           order_index |-> Len(editor.cells)])
           newCells == handleInsertCell(editor.cells, targetCellId, position, nextCellId)
       IN  IF ~PageFound(editor.page)
           THEN /\ last' = Resp("createCell", 404, "page", 0, 0, 0, 0)
                /\ editor' = [editor EXCEPT !.ev = "insertCell"]
                /\ UNCHANGED <<pages, cells, nextPageId, nextCellId>>
           ELSE IF type = "" \/ type \notin AllowedTypes
           THEN /\ last' = Resp("createCell", 400, "type", 0, 0, 0, 0)
                /\ editor' = [editor EXCEPT !.ev = "insertCell"]
                /\ UNCHANGED <<pages, cells, nextPageId, nextCellId>>
           ELSE IF type \notin StoreTypes
           THEN /\ last' = Resp("createCell", 500, "store", 0, 0, 0, 0)
                /\ editor' = [editor EXCEPT !.ev = "insertCell"]
                /\ UNCHANGED <<pages, cells, nextPageId, nextCellId>>
           ELSE IF findIndex(editor.cells, targetCellId) = 0
           THEN /\ last' = Resp("createCell", 201, "", targetPageId, 0, 1, 0)
                /\ cells' = created
                /\ nextCellId' = nextCellId + 1
                /\ editor' = [editor EXCEPT !.ev = "insertCell"]
                /\ UNCHANGED <<pages, nextPageId>>
           ELSE /\ last' = Resp("reorderCells", 200, "", targetPageId, Len(newCells),
                               Len(newCells), 0)
                /\ cells' = reorderTransaction(created, newCells, 0, targetPageId)
                /\ nextCellId' = nextCellId + 1
                /\ editor' \in reloaded([editor EXCEPT !.ev = "insertCell"], cells')
                /\ UNCHANGED <<pages, nextPageId>>
    /\ UNCHANGED meta

\* PageContent.handleCellDelete
HandleCellDelete(cellId) ==
    /\ editor.page # NULL
    /\ DeleteCell(cellId)
    /\ IF last'.status = 204
       THEN editor' \in reloaded([editor EXCEPT !.ev = "deleteCell"], cells')
       ELSE editor' = [editor EXCEPT !.ev = "deleteCell"]
    /\ UNCHANGED meta

\* PageContent.handleDragEnd, of the cell at place active over the one at over
HandleDragEnd(active, over) ==
    /\ editor.page # NULL
    /\ active # over
    /\ ReorderCells(editor.page, arrayMove(editor.cells, active, over))
    /\ IF last'.status = 200
       THEN editor' \in reloaded([editor EXCEPT !.ev = "dragEnd"], cells')
       ELSE editor' = [editor EXCEPT !.ev = "dragEnd"]
    /\ UNCHANGED meta

\* ------------------------------------------------------------- wiki page
\* the rows GET /pages answers with
listedPages(pg) == Restrict(pg, DOMAIN pg \ {0})

\* WikiPage.loadPages
WikiLoadPages ==
    /\ ListPages
    /\ editor' = [editor EXCEPT !.wikiPages = listedPages(pages), !.ev = "loadPages"]
    /\ UNCHANGED meta

\* WikiPage.createPage
WikiCreatePage(title, parentId) ==
    /\ CreatePage(title, parentId)
    /\ editor' = IF last'.status = 201
                 THEN [editor EXCEPT !.wikiPages = (nextPageId :> pages'[nextPageId]) @@ @,
                                     !.ev = "wikiCreate"]
                 ELSE [editor EXCEPT !.ev = "wikiCreate"]
    /\ UNCHANGED meta

\* WikiPage.updatePage: allPages.map(p => p.id === id ? response.data : p)
WikiUpdatePage(id, title, parentId) ==
    /\ UpdatePage(id, title, parentId)
    /\ editor' = IF last'.status = 200
                 THEN [editor EXCEPT !.wikiPages =
                          [p \in DOMAIN @ |-> IF p = id THEN pages'[id] ELSE @[p]],
                                     !.ev = "wikiUpdate"]
                 ELSE [editor EXCEPT !.ev = "wikiUpdate"]
    /\ UNCHANGED meta

\* WikiPage.deletePage: allPages.filter(p => p.id !== id)
WikiDeletePage(id) ==
    /\ DeletePage(id)
    /\ editor' = IF last'.status = 204
                 THEN [editor EXCEPT !.wikiPages = Restrict(@, DOMAIN @ \ {id}),
                                     !.ev = "wikiDelete"]
                 ELSE [editor EXCEPT !.ev = "wikiDelete"]
    /\ UNCHANGED meta

\* ---------------------------------------------------------- specification
Init ==
    /\ pages = (0 :> [title |-> MainTitle, parent_id |-> NULL, path |-> MainTitle])
    /\ cells = <<>>
    /\ nextPageId = 1
    /\ nextCellId = 1
    /\ last = Resp("init", 0, "", 0, 0, 0, 0)
    /\ meta = OneProject
    /\ editor = EditorIdle

Next ==
    \/ \E title \in TitleInputs, parentId \in ParentIdInputs : CreatePage(title, parentId) /\ UNCHANGED <<editor, meta>>
    \/ \E pageId \in PageIdParams, title \in TitleInputs \cup {NoTitle},
          parentId \in ParentIdInputs : UpdatePage(pageId, title, parentId) /\ UNCHANGED <<editor, meta>>
    \/ \E pageId \in PageIdParams : DeletePage(pageId) /\ UNCHANGED <<editor, meta>>

Spec == Init /\ [][Next]_vars

\* the cell store with one ordinary page beside the main page
NextCells ==
    \/ /\ nextPageId <= MaxCellPages
       /\ nextCellId + 1 <= MaxCellId
       /\ CreatePage(<<"A">>, NULL) /\ UNCHANGED <<editor, meta>>
    \/ \E pageId \in PageIdParams, type \in TypeInputs, orderIndex \in OrderInputs :
          CreateCell(pageId, type, <<>>, orderIndex) /\ UNCHANGED <<editor, meta>>
    \/ \E cellId \in CellIdParams : DeleteCell(cellId) /\ UNCHANGED <<editor, meta>>
    \/ \E pageId \in PageIdParams, cellIds \in IdLists : ReorderCells(pageId, cellIds) /\ UNCHANGED <<editor, meta>>

SpecCells == Init /\ [][NextCells]_vars

\* the page requests with the titles a client may send, the empty one included
TitleParents == {NULL, UNDEF, 1}
TwoWords == <<"a", "B", " ", "b">>

NextTitles ==
    \/ \E title \in TitleInputs \cup {<<>>, TwoWords}, parentId \in TitleParents :
          CreatePage(title, parentId) /\ UNCHANGED <<editor, meta>>
    \/ \E pageId \in 0..MaxPageId, title \in TitleInputs \cup {<<>>, NoTitle},
          parentId \in TitleParents : UpdatePage(pageId, title, parentId) /\ UNCHANGED <<editor, meta>>
    \/ \E pageId \in 1..MaxPageId : DeletePage(pageId) /\ UNCHANGED <<editor, meta>>

SpecTitles == Init /\ [][NextTitles]_vars

\* the read requests, with the page requests that give them pages to find
NextReads ==
    \/ \E title \in {<<"A">>, <<"a", "b">>}, parentId \in {NULL, 1} :
          CreatePage(title, parentId) /\ UNCHANGED <<editor, meta>>
    \/ \E pageId \in 1..MaxPageId, title \in {<<"A">>, <<"a", "b">>} :
          UpdatePage(pageId, title, UNDEF) /\ UNCHANGED <<editor, meta>>
    \/ \E pageId \in 1..MaxPageId : DeletePage(pageId) /\ UNCHANGED <<editor, meta>>
    \/ ListPages /\ UNCHANGED <<editor, meta>>
    \/ \E q \in SearchTexts : SearchPages(q) /\ UNCHANGED <<editor, meta>>
    \/ \E text \in SearchTexts, currentPageId \in CurrentPageInputs :
          SuggestLinks(text, currentPageId) /\ UNCHANGED <<editor, meta>>

SpecReads == Init /\ [][NextReads]_vars

\* the cell requests that write type and content
NextCellEdit ==
    \/ /\ nextPageId <= MaxCellPages
       /\ nextCellId + 1 <= MaxCellId
       /\ CreatePage(<<"A">>, NULL) /\ UNCHANGED <<editor, meta>>
    \/ \E pageId \in PageIdParams, type \in CreateTypeInputs, orderIndex \in OrderInputs :
          CreateCell(pageId, type, <<>>, orderIndex) /\ UNCHANGED <<editor, meta>>
    \/ \E cellId \in CellIdParams, type \in UpdateTypeInputs,
          content \in UpdateContentInputs :
          UpdateCell(cellId, type, content) /\ UNCHANGED <<editor, meta>>
    \/ \E cellId \in CellIdParams : DeleteCell(cellId) /\ UNCHANGED <<editor, meta>>

SpecCellEdit == Init /\ [][NextCellEdit]_vars

\* pages renamed and moved while cells hold links to them
LinkedCells == {<<LinkOpen(1), "A", LinkClose>>, <<"A", LinkOpen(2), "b", LinkClose>>}

NextRename ==
    \/ \E parentId \in {NULL, 1} : CreatePage(<<"A">>, parentId) /\ UNCHANGED <<editor, meta>>
    \/ \E cellId \in 1..(2 * MaxPageId), content \in LinkedCells :
          UpdateCell(cellId, NoType, content) /\ UNCHANGED <<editor, meta>>
    \/ \E pageId \in 0..MaxPageId, title \in {<<"A">>, <<"b">>, NoTitle},
          parentId \in {UNDEF, EMPTYSTR, 1, 2} :
          UpdatePage(pageId, title, parentId) /\ UNCHANGED <<editor, meta>>

SpecRename == Init /\ [][NextRename]_vars

\* ------------------------------------------------------------ page claims
RECURSIVE parentChain(_, _, _)
\* the ids on the parent chain of id, the nearest first (id itself excluded)
parentChain(pg, id, fuel) ==
    IF id \notin DOMAIN pg \/ fuel = 0 THEN <<>>
    ELSE LET up == pg[id].parent_id
         IN IF up \notin DOMAIN pg THEN <<>>
            ELSE <<up>> \o parentChain(pg, up, fuel - 1)

\* a is a proper ancestor of d
IsAncestor(pg, a, d) ==
    LET chain == parentChain(pg, d, Cardinality(DOMAIN pg) + 1)
    IN \E i \in 1..Len(chain) : chain[i] = a

Subtree(pg, p) == {p} \cup {d \in DOMAIN pg : IsAncestor(pg, p, d)}

RECURSIVE ordinaryTitles(_, _, _)
\* the titles of the ordinary pages from the top-most ordinary ancestor of id
\* down to id: the chain ends at a page without parent or under the root page 0
ordinaryTitles(pg, id, fuel) ==
    IF id = 0 \/ id \notin DOMAIN pg \/ fuel = 0 THEN <<>>
    ELSE ordinaryTitles(pg, pg[id].parent_id, fuel - 1) \o <<pg[id].title>>

\* C1: every ordinary page's path is the " > "-join of the titles on its parent
\* chain, top-most ancestor first (the synthetic root page 0 is left out of the
\* chain, as createPage and movePage leave it out)
C1_PathIsTitleChain ==
    \A p \in DOMAIN pages \ {0} :
        pages[p].path = Join(ordinaryTitles(pages, p, Cardinality(DOMAIN pages) + 1), SEP)

\* C2: the parent_id relation is acyclic: no page is its own ancestor
C2_Acyclic == \A p \in DOMAIN pages : ~IsAncestor(pages, p, p)

\* C3: a move of a page under itself or under one of its descendants fails with
\* the cycle error and changes no page
C3_CycleMoveRejected ==
    [][\A pageId \in DOMAIN pages, parentId \in DOMAIN pages :
          (/\ parentId = pageId \/ IsAncestor(pages, pageId, parentId)
           /\ UpdatePage(pageId, NoTitle, parentId))
          => /\ last'.status = 400
             /\ last'.err \in {"self", "descendant"}
             /\ pages' = pages]_vars

\* C4: deletePage(p) removes p, the descendants of p and the cells of those
\* pages, and removes or changes no other page and no other cell
C4_DeleteRemovesSubtree ==
    [][\A pageId \in DOMAIN pages :
          DeletePage(pageId)
          => /\ DOMAIN pages' = DOMAIN pages \ Subtree(pages, pageId)
             /\ DOMAIN cells' =
                    {c \in DOMAIN cells : cells[c].page_id \notin Subtree(pages, pageId)}
             /\ \A p \in DOMAIN pages' : pages'[p] = pages[p]
             /\ \A c \in DOMAIN cells' : cells'[c] = cells[c]]_vars

\* a deletePage that removed a page together with at least one descendant while
\* another page and its cells stayed
C4_Witness ==
    /\ last.op = "deletePage" /\ last.status = 204 /\ last.n >= 2
    /\ DOMAIN pages # {} /\ DOMAIN cells # {}

\* the store with statements that can fail: the failAt-th UPDATE of a request
\* throws (0: none does).  The requests address ordinary pages.
NextFault ==
    \/ \E title \in TitleInputs, parentId \in {NULL} \cup (1..MaxPageId) :
          CreatePage(title, parentId) /\ UNCHANGED <<editor, meta>>
    \/ \E pageId \in 1..MaxPageId, title \in TitleInputs \cup {NoTitle},
          parentId \in {UNDEF, NULL} \cup (1..MaxPageId), failAt \in 0..MaxFailAt :
          putPage(pageId, title, parentId, failAt) /\ UNCHANGED <<editor, meta>>
    \/ \E pageId \in 1..MaxPageId, cellIds \in IdLists, failAt \in 0..MaxFailAt :
          putReorder(pageId, cellIds, failAt) /\ UNCHANGED <<editor, meta>>

SpecFault == Init /\ [][NextFault]_vars

\* an open text cell with any content, on any page, and the scans of it
InitScan ==
    /\ pages = (0 :> [title |-> MainTitle, parent_id |-> NULL, path |-> MainTitle])
    /\ cells = <<>>
    /\ nextPageId = 1
    /\ nextCellId = 1
    /\ last = Resp("init", 0, "", 0, 0, 0, 0)
    /\ meta = OneProject
    /\ \E html \in Contents, allPages \in PageLists, pageId \in 1..3 :
          editor = [EditorIdle EXCEPT !.html = html, !.content = html, !.saved = html,
                                      !.allPages = allPages, !.pageId = pageId]

NextScan == HandleInput

SpecScan == InitScan /\ [][NextScan]_vars

\* the component mounted on a cell of the main page, with one other page in the
\* project
InitEditor ==
    /\ \E title \in EditorTitles, html \in EditorContents :
          /\ pages = (0 :> [title |-> MainTitle, parent_id |-> NULL, path |-> MainTitle])
                     @@ (1 :> [title |-> title, parent_id |-> NULL, path |-> title])
          /\ cells = (1 :> [page_id |-> 1, type |-> "header",
                            content |-> toCamelCase(title) \o SummarySuffix,
                            order_index |-> 0])
                     @@ (2 :> [page_id |-> 1, type |-> "text", content |-> <<>>,
                               order_index |-> 1])
          /\ editor = [EditorIdle EXCEPT !.html = html, !.content = html, !.saved = html,
                                         !.allPages = <<<<1, title>>>>]
    /\ nextPageId = 2
    /\ nextCellId = 3
    /\ last = Resp("init", 0, "", 0, 0, 0, 0)
    /\ meta = OneProject

Positions == 0..(Len(editor.html))

NextEditor ==
    \/ \E c \in TypedChars : TypeChar(c)
    \/ \E k \in 1..Len(Links(editor.html)) : ContextMenuLink(k)
    \/ \E a \in Positions, b \in Positions : ContextMenuSelection(a, b)
    \/ CloseMenu
    \/ \E i \in 1..Len(editor.allPages) : LinkSelect(i)
    \/ CreateNewPage
    \/ \E p \in ParentOptions : ChooseParent(p)
    \/ CancelCreatePage
    \/ ConfirmCreatePage
    \/ ConfirmCreatePageNoAnswer
    \/ Unlink
    \/ Blur

SpecEditor == InitEditor /\ [][NextEditor]_vars

\* the component mounted as for SpecEditor, with the events that open the
\* link menu, change its text and close it, and the menu's requests
InitMenu ==
    /\ \E title \in EditorTitles,
          html \in {<<"A", " ", "B", "B">>, <<"A", LinkOpen(1), "B", "b", LinkClose>>} :
          /\ pages = (0 :> [title |-> MainTitle, parent_id |-> NULL, path |-> MainTitle])
                     @@ (1 :> [title |-> title, parent_id |-> NULL, path |-> title])
          /\ cells = (1 :> [page_id |-> 1, type |-> "header",
                            content |-> toCamelCase(title) \o SummarySuffix,
                            order_index |-> 0])
                     @@ (2 :> [page_id |-> 1, type |-> "text", content |-> <<>>,
                               order_index |-> 1])
          /\ editor = [EditorIdle EXCEPT !.html = html, !.content = html, !.saved = html,
                                         !.allPages = <<<<1, title>>>>]
    /\ nextPageId = 2
    /\ nextCellId = 3
    /\ last = Resp("init", 0, "", 0, 0, 0, 0)
    /\ meta = OneProject

NextMenu ==
    \/ \E k \in 1..Len(Links(editor.html)) : ContextMenuLink(k)
    \/ \E a \in Positions, b \in Positions : ContextMenuSelection(a, b)
    \/ CloseMenu
    \/ FetchSuggestions
    \/ \E q \in editor.inflight : FetchAnswered(q)
    \/ \E q \in editor.inflight : FetchFailed(q)

SpecMenu == InitMenu /\ [][NextMenu]_vars

\* the server started in an empty projects directory; projects are created,
\* listed and deleted, and pages and cells are made in them
InitProjects ==
    /\ pages = <<>>
    /\ cells = <<>>
    /\ nextPageId = 1
    /\ nextCellId = 1
    /\ last = Resp("init", 0, "", 0, 0, 0, 0)
    /\ editor = EditorIdle
    /\ meta = [projects |-> <<>>, seq |-> 0]

NextProjects ==
    \/ \E displayName \in DisplayNames : CreateProject(displayName) /\ UNCHANGED editor
    \/ \E id \in ProjectIdParams : DeleteProject(id) /\ UNCHANGED editor
    \/ ListProjects /\ UNCHANGED editor
    \/ \E id \in ProjectIdParams, parentId \in {NULL, 1} :
          InProject(id, CreatePage(<<"A">>, parentId)) /\ UNCHANGED <<editor, meta>>
    \/ \E id \in ProjectIdParams, pageId \in {MAIN, 1} :
          InProject(id, CreateCell(pageId, "text", <<"A">>, UNDEF)) /\ UNCHANGED <<editor, meta>>
    \/ \E id \in ProjectIdParams : InProject(id, ListPages) /\ UNCHANGED <<editor, meta>>

SpecProjects == InitProjects /\ [][NextProjects]_vars

\* PageContent on the main page or on the one ordinary page, with the cell
\* requests its controls make
InsertTypes == {"text", "ranking"}

NextPageContent ==
    \/ /\ nextPageId <= MaxCellPages
       /\ nextCellId + 1 <= MaxCellId
       /\ CreatePage(<<"A">>, NULL) /\ UNCHANGED <<editor, meta>>
    \/ \E pageId \in {MAIN, 1} : LoadPage(pageId)
    \/ \E type \in InsertTypes : HandleAddCell(type)
    \/ \E k \in 1..Len(editor.cells), position \in {"before", "after"},
          type \in InsertTypes : HandleInsertCell(editor.cells[k], position, type)
    \/ \E k \in 1..Len(editor.cells) : HandleCellDelete(editor.cells[k])
    \/ \E active \in 1..Len(editor.cells), over \in 1..Len(editor.cells) :
          HandleDragEnd(active, over)

SpecPageContent == Init /\ [][NextPageContent]_vars

\* WikiPage with the page requests of the sidebar: create, rename and move
\* (under a page it lists, or to the top), delete
NextWiki ==
    \/ WikiLoadPages
    \/ \E title \in {<<"A">>, <<"b">>}, parentId \in DOMAIN editor.wikiPages \cup {NULL} :
          WikiCreatePage(title, parentId)
    \/ \E id \in DOMAIN editor.wikiPages, title \in {<<"A">>, <<"b">>} :
          WikiUpdatePage(id, title, UNDEF)
    \/ \E id \in DOMAIN editor.wikiPages, parentId \in DOMAIN editor.wikiPages \cup {NULL} :
          WikiUpdatePage(id, NoTitle, parentId)
    \/ \E id \in DOMAIN editor.wikiPages : WikiDeletePage(id)

SpecWiki == Init /\ [][NextWiki]_vars

\* ------------------------------------------------------------ cell claims
Named(cs, cellIds, targetPageId) ==
    {c \in CellsOf(cs, targetPageId) : \E i \in 1..Len(cellIds) : cellIds[i] = c}

LastPosition(cellIds, c) ==
    CHOOSE i \in 1..Len(cellIds) :
        cellIds[i] = c /\ \A j \in (i + 1)..Len(cellIds) : cellIds[j] # c

\* the order_index values of the page's cells are 0..N-1, each taken once
Contiguous(cs, pageId) ==
    \A x \in 0..(Cardinality(CellsOf(cs, pageId)) - 1) :
        Cardinality({c \in CellsOf(cs, pageId) : cs[c].order_index = x}) = 1

\* cellIds names every cell of the page exactly once and nothing else
IsOrderingOf(cs, cellIds, pageId) ==
    /\ Len(cellIds) = Cardinality(CellsOf(cs, pageId))
    /\ {cellIds[i] : i \in 1..Len(cellIds)} = CellsOf(cs, pageId)

\* the requests a step that answered reorderCells with 200 can have served:
\* those for the page and of the length the response names
ReorderedPages == {pageId \in PageIdParams : TargetPageId(pageId) = last'.id}

ReorderedLists == IdListsOf(last'.len)

Reordered == last'.op = "reorderCells" /\ last'.status = 200

\* C5 as stated: after reorderCells(pageId, ids), for every list ids, the cells
\* of the page named in ids have order_index 0..len(ids)-1 in the order given,
\* and every other cell keeps its order_index
C5_ReorderAssignsListOrder ==
    [][Reordered => \A pageId \in ReorderedPages, cellIds \in ReorderedLists :
          ReorderCells(pageId, cellIds)
          => LET named == Named(cells, cellIds, TargetPageId(pageId))
             IN /\ \A i \in 1..Len(cellIds) :
                       cellIds[i] \in named => cells'[cellIds[i]].order_index = i - 1
                /\ {cells'[c].order_index : c \in named} = 0..(Len(cellIds) - 1)
                /\ \A c \in DOMAIN cells \ named : cells'[c] = cells[c]]_vars

\* C5 amended: each cell of the page named in ids gets the 0-based position of
\* the last occurrence of its id in ids, hence 0..len(ids)-1 in the order given
\* when ids are distinct ids of cells of the page; every other cell is unchanged
C5_ReorderAssignsLastPosition ==
    [][Reordered => \A pageId \in ReorderedPages, cellIds \in ReorderedLists :
          ReorderCells(pageId, cellIds)
          => LET named == Named(cells, cellIds, TargetPageId(pageId))
             IN /\ DOMAIN cells' = DOMAIN cells
                /\ \A c \in named :
                       cells'[c] = [cells[c] EXCEPT
                                       !.order_index = LastPosition(cellIds, c) - 1]
                /\ \A c \in DOMAIN cells \ named : cells'[c] = cells[c]
                /\ Cardinality(named) = Len(cellIds)
                       => /\ \A i \in 1..Len(cellIds) :
                                 cells'[cellIds[i]].order_index = i - 1
                          /\ {cells'[c].order_index : c \in named}
                                 = 0..(Len(cellIds) - 1)]_vars

\* a reorder whose list named at least two cells of the page, each once, and
\* nothing else
C5_Witness ==
    /\ last.op = "reorderCells" /\ last.status = 200
    /\ last.len >= 2 /\ last.n = last.len /\ last.k = 0
    /\ \E c \in CellsOf(cells, last.id) : cells[c].order_index = last.len - 1

\* C6 as stated: after any reorderCells on a page the order_index values of the
\* page's cells are contiguous 0..N-1
C6_ReorderLeavesContiguous ==
    [][Reordered => \A pageId \in ReorderedPages, cellIds \in ReorderedLists :
          ReorderCells(pageId, cellIds)
          => Contiguous(cells', TargetPageId(pageId))]_vars

\* C6 amended: after a reorderCells whose list names every cell of the page
\* exactly once and nothing else, the order_index values of the page's cells
\* are contiguous 0..N-1
C6_FullReorderLeavesContiguous ==
    [][Reordered => \A pageId \in ReorderedPages, cellIds \in ReorderedLists :
          (/\ IsOrderingOf(cells, cellIds, TargetPageId(pageId))
           /\ ReorderCells(pageId, cellIds))
          => Contiguous(cells', TargetPageId(pageId))]_vars

\* a reorder whose list was an ordering of all the (at least two) cells of the
\* page, which were not in that order before
C6_Witness ==
    /\ last.op = "reorderCells" /\ last.status = 200
    /\ last.n = last.len /\ last.k = 0
    /\ last.n = Cardinality(CellsOf(cells, last.id)) /\ last.n >= 2
    /\ \E c \in CellsOf(cells, last.id) : c > 1 /\ cells[c].order_index = 0

\* C7: reorderCells changes only cells of the page it addresses; an id of a cell
\* of another page, or of no cell, is skipped without an error
C7_ReorderTouchesOnlyItsPage ==
    [][last'.op = "reorderCells" => \A pageId \in PageIdParams, cellIds \in IdLists :
          (PageFound(pageId) /\ ReorderCells(pageId, cellIds))
          => /\ last'.status = 200
             /\ DOMAIN cells' = DOMAIN cells
             /\ \A c \in DOMAIN cells :
                    /\ cells'[c].page_id = cells[c].page_id
                    /\ cells[c].page_id # TargetPageId(pageId) => cells'[c] = cells[c]]_vars

\* a reorder that gave a cell of its page a new position and skipped an id,
\* while another page has cells
C7_Witness ==
    /\ last.op = "reorderCells" /\ last.status = 200
    /\ last.k >= 1 /\ last.n >= 1
    /\ \E c \in DOMAIN cells : cells[c].page_id # last.id

\* C9: createCell without an orderIndex gives the new cell the page's maximum
\* order_index plus one, and 0 on a page without cells
C9_AppendAfterMaximum ==
    [][last'.op = "createCell" /\ last'.status = 201
          => \A pageId \in PageIdParams, type \in TypeInputs :
          CreateCell(pageId, type, <<>>, UNDEF)
          => cells'[nextCellId].order_index =
                 IF CellsOf(cells, TargetPageId(pageId)) = {} THEN 0
                 ELSE MaxOrder(cells, TargetPageId(pageId)) + 1]_vars

\* C8: reorderCells and the path cascade of a move or rename are all-or-nothing:
\* a request that fails at a store statement leaves the stored pages and cells
\* as they were
C8_AllOrNothing ==
    [][(last'.op \in {"updatePage", "reorderCells"} /\ last'.err = "store")
          => (pages' = pages /\ cells' = cells)]_vars

\* C10: the auto-link scan is idempotent: a scan of the output of a scan returns
\* that output unchanged
C10_ScanIdempotent ==
    [][(editor.scans >= 1 /\ HandleInput) => editor'.html = editor.html]_vars

\* ------------------------------------------------------------ scan claims
TitleMatches(allPages, phrase, pageId) ==
    {allPages[i][1] : i \in {j \in 1..Len(allPages) :
        toUpperCase(allPages[j][2]) = phrase /\ allPages[j][1] # pageId}}

\* s[p..e] is a run of all-uppercase words: it starts and ends with a capital,
\* holds capitals and white space only, and is not part of a longer word
IsCapsRun(s, p, e) ==
    /\ p <= e
    /\ s[p] \in Capitals /\ s[e] \in Capitals
    /\ \A j \in p..e : s[j] \in Capitals \cup Whitespace
    /\ WordBoundary(s, p - 1) /\ WordBoundary(s, e)

\* the runs of s that are in no longer run and in no link, as <<p, e>>
PlainCapsRuns(s) ==
    {r \in (1..Len(s)) \X (1..Len(s)) :
        /\ IsCapsRun(s, r[1], r[2])
        /\ \A q \in 1..r[1], f \in r[2]..Len(s) :
              IsCapsRun(s, q, f) => (q = r[1] /\ f = r[2])
        /\ Cardinality({i \in 1..r[1] : s[i] \in LinkOpens})
               = Cardinality({i \in 1..r[1] : s[i] = LinkClose})}

C12_CapsRunLinked ==
    [][HandleInput =>
          \A r \in PlainCapsRuns(editor.html) :
              LET phrase == SubSeq(editor.html, r[1], r[2])
                  targets == TitleMatches(editor.allPages, phrase, editor.pageId)
              IN targets # {} =>
                    /\ \E k \in 1..Len(Links(editor'.html)) :
                          /\ Links(editor'.html)[k][1] \in targets
                          /\ Links(editor'.html)[k][2] = toCamelCase(phrase)
                    /\ \A q \in PlainCapsRuns(editor'.html) :
                          SubSeq(editor'.html, q[1], q[2]) # phrase]_vars

\* C13: a scan preserves the links already in the content: every link present
\* before the scan is present after it with the same target and label, and no
\* link is inside another link
C13_ScanPreservesLinks ==
    [][HandleInput =>
          /\ \A k \in 1..Len(Links(editor.html)) :
                Occurrences(Links(editor'.html), Links(editor.html)[k])
                    >= Occurrences(Links(editor.html), Links(editor.html)[k])
          /\ \A i \in 1..Len(editor'.html) :
                editor'.html[i] \in LinkOpens =>
                    Cardinality({j \in 1..(i - 1) : editor'.html[j] \in LinkOpens})
                        = Cardinality({j \in 1..(i - 1) : editor'.html[j] = LinkClose})]_vars

\* ------------------------------------------------- link interaction claims
\* C14: the temporary selection marker is never persisted: whatever the
\* sequence of right-clicks, menu dismissals, page picks, page creations, dialog
\* cancels, key presses and blurs, no updateCell request carries (and so the
\* cell's row never holds) content with the marker span in it.
C14_MarkerNeverPersisted == ~HasMarker(editor.saved)

\* C15: when the link menu opened on a selection is dismissed with nothing
\* picked, the marker is unwrapped and the content is again what it was before
\* the selection was wrapped, whatever was selected (a selection running over
\* an existing link included).
C15_DismissRestoresContent ==
    [][(/\ CloseMenu
        /\ editor.editingLinkNode = <<>>
        /\ editor.clean
        /\ ~HasMarker(editor.before))
       => (~HasMarker(editor'.html) /\ editor'.html = editor.before)]_vars

\* C16: picking an existing page P in the link menu replaces the marker by
\* exactly one link with target P's id and, as its label, the selected text as
\* it was selected, and that content is persisted with one updateCell request.
C16_PickReplacesMarker ==
    [][\A i \in 1..Len(editor.allPages) :
          (LinkSelect(i) /\ HasMarker(editor.html)) =>
              LET link == <<editor.allPages[i][1], editor.selectedText>>
              IN /\ ~HasMarker(editor'.html)
                 /\ Len(Links(editor'.html)) = Len(Links(editor.html)) + 1
                 /\ Occurrences(Links(editor'.html), link) >= 1
                 /\ textContent(editor'.html) = textContent(editor.html)
                 /\ editor'.sent = 1
                 /\ innerHTML(editor'.saved) = editor'.html]_vars

nthLink(s, k) ==
    CHOOSE p \in 1..Len(s) :
        /\ s[p] \in LinkOpens
        /\ Cardinality({q \in 1..p : s[q] \in LinkOpens}) = k

\* the first link of s, in content order, with the target and text given
firstLinkLike(s, link) == CHOOSE k \in 1..Len(Links(s)) :
    /\ Links(s)[k] = link
    /\ \A j \in 1..(k - 1) : Links(s)[j] # link

\* C18: unlinking a link with target T and label L replaces exactly one link
\* of the content, the first in content order with target T and label L, by
\* the plain text L; every other link and all other content stay as they are,
\* and the result is persisted with one updateCell.
C18_UnlinkFirstMatch ==
    [][(Unlink /\ Occurrences(Links(editor.html), editor.editingLinkNode) >= 1) =>
          LET open == nthLink(editor.html,
                              firstLinkLike(editor.html, editor.editingLinkNode))
              close == firstIn(editor.html, open, {LinkClose})
          IN /\ editor'.html = SubSeq(editor.html, 1, open - 1)
                                   \o editor.editingLinkNode[2]
                                   \o SubSeq(editor.html, close + 1, Len(editor.html))
             /\ Len(Links(editor'.html)) = Len(Links(editor.html)) - 1
             /\ editor'.sent = 1
             /\ editor'.saved = editor'.html]_vars

\* one of two links with the same target and label was unlinked: the first is
\* plain text now, the second still a link
C18_Witness ==
    /\ editor.ev = "unlink"
    /\ editor.sent = 1
    /\ editor.html = <<"b", LinkOpen(1), "b", LinkClose>>

\* C19: when a page is picked, or a new page has been created from the dialog,
\* and the content holds no marker any more, no link is inserted, the content
\* is left without a marker, and no updateCell is sent.
C19_NoMarkerNoLink ==
    [][(/\ ConfirmCreatePage \/ \E i \in 1..Len(editor.allPages) : LinkSelect(i)
        /\ ~HasMarker(editor.html))
       => /\ editor'.html = editor.html
          /\ Links(editor'.html) = Links(editor.html)
          /\ ~HasMarker(editor'.html)
          /\ ~HasMarker(editor'.content)
          /\ editor'.sent = 0
          /\ editor'.saved = editor.saved]_vars

\* a page was picked in the menu opened on an existing link, where no
\* selection was wrapped: nothing was sent
C19_Witness ==
    /\ editor.ev = "select"
    /\ editor.editingLinkNode # <<>>
    /\ ~HasMarker(editor.html)
    /\ editor.sent = 0

\* C20: when the cell loses focus while no link menu is open, any difference
\* between the displayed content and the persisted content is sent as an
\* updateCell, so that after the blur the stored content is the displayed one;
\* this covers text typed before a link menu was opened and then dismissed.
C20_BlurPersistsDisplayed ==
    [][(Blur /\ ~editor.isContextMenuOpen) => editor'.saved = editor'.html]_vars

\* ---------------------------------------------------- validation claims
\* the cell types of the interface
ValidTypes == {"text", "header", "subheader", "table", "ranking"}

\* C24: createCell on an existing page with a type outside text, header,
\* subheader, table, ranking, or with no type, is answered with the validation
\* error for the type and creates no cell.
C24_CreateCellRejectsType ==
    [][last'.op = "createCell" =>
          \A pageId \in PageIdParams, type \in CreateTypeInputs, orderIndex \in OrderInputs :
              (/\ CreateCell(pageId, type, <<>>, orderIndex)
               /\ PageFound(pageId)
               /\ type \notin ValidTypes)
              => /\ last'.status = 400
                 /\ last'.err = "type"
                 /\ cells' = cells
                 /\ nextCellId' = nextCellId]_vars

\* a createCell request was refused for its type while the page has cells
C24_Witness ==
    /\ last.op = "createCell"
    /\ last.status = 400
    /\ last.err = "type"
    /\ cells # <<>>

\* C25: updateCell of an existing cell with neither type nor content, or with
\* a type outside the allowed ones (content given or not), is answered with a
\* validation error and leaves the cell's type and content as they were.
C25_UpdateCellRejects ==
    [][last'.op = "updateCell" =>
          \A cellId \in DOMAIN cells, type \in UpdateTypeInputs,
             content \in UpdateContentInputs :
              (/\ UpdateCell(cellId, type, content)
               /\ \/ type = NoType /\ content = NoContent
                  \/ type # NoType /\ type \notin ValidTypes)
              => /\ last'.status = 400
                 /\ cells' = cells]_vars

\* an updateCell request was refused and the cell it addressed holds content
C25_Witness ==
    /\ last.op = "updateCell"
    /\ last.status = 400
    /\ last.id \in DOMAIN cells
    /\ cells[last.id].content = <<"A">>

\* the empty title and the titles of white space only
BlankTitles == {<<>>, <<" ">>}

\* C26: createPage with an empty or whitespace-only title is answered with the
\* validation error for the title and creates no page and no cell; renaming an
\* existing page to such a title is answered the same way and changes nothing.
C26_BlankTitleRejected ==
    [][last'.op \in {"createPage", "updatePage"} =>
          /\ \A title \in BlankTitles, parentId \in TitleParents :
                CreatePage(title, parentId)
                => /\ last'.status = 400
                   /\ last'.err = "title"
                   /\ pages' = pages
                   /\ cells' = cells
                   /\ nextPageId' = nextPageId
          /\ \A pageId \in DOMAIN pages, title \in BlankTitles,
                parentId \in TitleParents :
                UpdatePage(pageId, title, parentId)
                => /\ last'.status = 400
                   /\ last'.err = "title"
                   /\ pages' = pages
                   /\ cells' = cells]_vars

\* a request with a blank title was refused while the project has an ordinary
\* page
C26_Witness ==
    /\ last.op = "updatePage"
    /\ last.status = 400
    /\ last.err = "title"
    /\ \E p \in DOMAIN pages : p # 0

\* the titles of NextTitles in Title Case
TitleCased ==
    (<<"A">> :> <<"A">>) @@ (<<"b">> :> <<"B">>) @@ (TwoWords :> <<"A", "b", " ", "B">>)

\* C27: every successful createPage leaves the new page with exactly two
\* cells: a header cell whose content is the title in Title Case followed by
\* " Summary", at order_index 0, and a text cell with empty content at
\* order_index 1.
C27_SeedCells ==
    [][(last'.op = "createPage" /\ last'.status = 201) =>
          LET seeds == CellsOf(cells', nextPageId)
          IN /\ nextPageId \in DOMAIN pages' \ DOMAIN pages
             /\ Cardinality(seeds) = 2
             /\ \E h \in seeds :
                   cells'[h] = [page_id |-> nextPageId, type |-> "header",
                                content |-> TitleCased[pages'[nextPageId].title]
                                                \o <<" ", "S">>,
                                order_index |-> 0]
             /\ \E t \in seeds :
                   cells'[t] = [page_id |-> nextPageId, type |-> "text",
                                content |-> <<>>, order_index |-> 1]
             /\ \A c \in DOMAIN cells : c \in DOMAIN cells' /\ cells'[c] = cells[c]]_vars

\* the page with the two-word title was just created under page 1 and has its
\* seed cells
C27_Witness ==
    /\ last.op = "createPage"
    /\ last.status = 201
    /\ 2 \in DOMAIN pages
    /\ pages[2].title = TwoWords
    /\ pages[2].parent_id = 1
    /\ Cardinality(CellsOf(cells, 2)) = 2

\* ----------------------------------------------------------- root claims
\* C29: in every reachable state the synthetic root page (id 0) exists and has
\* no parent, whatever createPage, renamePage, movePage and deletePage requests
\* were made, page id 0 included.
C29_RootStays == 0 \in DOMAIN pages /\ pages[0].parent_id = NULL

\* ----------------------------------------------------------- read claims
\* C23: suggest(text, excludePageId) returns at most 10 pages, all of them
\* pages of the project, never the page excludePageId, in ascending order of
\* score; for an empty or whitespace-only text it returns the empty list.
C23_SuggestContract ==
    [][last'.op = "suggestLinks" =>
          \A text \in SearchTexts, currentPageId \in CurrentPageInputs :
              SuggestLinks(text, currentPageId)
              => /\ Len(last'.rows) <= 10
                 /\ \A i \in 1..Len(last'.rows) :
                       /\ last'.rows[i] \in DOMAIN pages
                       /\ last'.rows[i] # currentPageId
                 /\ \A i, j \in 1..Len(last'.rows) :
                       i < j => last'.scores[i] <= last'.scores[j]
                 /\ text \in {<<>>, <<" ">>} => last'.rows = <<>>]_vars

\* C28: the synthetic root page (id 0) is in no list of ordinary pages: not
\* in the result of listPages, nor of suggestLinks, nor among the title
\* matches of searchPages.
C28_RootNeverListed ==
    last.op \in {"listPages", "suggestLinks", "searchPages"}
    => \A i \in 1..Len(last.rows) : last.rows[i] # 0

\* ----------------------------------------------------- link menu claims
\* C21: when two suggest queries are in flight and the older one is answered
\* after the newer one was issued, the older answer is discarded: the
\* suggestions shown are not replaced by it.
C21_StaleAnswerDiscarded ==
    [][\A q \in editor.inflight :
          (FetchAnswered(q) /\ q.n < editor.issued)
          => editor'.suggestions = editor.suggestions]_vars

\* C22: whenever the suggest query for the current selection fails, the menu
\* shows no suggestion (not those of an earlier query) and stays up with its
\* "Create New Page" button.
C22_FailureShowsNone ==
    [][\A q \in editor.inflight :
          (/\ FetchFailed(q)
           /\ q.n = editor.issued
           /\ q.text = editor.selectedText)
          => /\ editor'.suggestions = <<>>
             /\ editor'.showContextMenu]_vars

\* ------------------------------------------------------- project claims
\* C30: after a project was deleted its database holds no ordinary page and
\* no cell, and a project created then, whose name makes the same slug,
\* starts with no ordinary page and no cell (the project being the one of the
\* directory ProjectSlug).
C30_DeleteProjectRemovesData ==
    [][(\/ /\ last'.op = "deleteProject" /\ last'.status = 204
           /\ meta.projects[last'.id].name = ProjectSlug
        \/ /\ last'.op = "createProject" /\ last'.status = 201
           /\ meta'.projects[last'.id].name = ProjectSlug)
       => /\ DOMAIN pages' \ {0} = {}
          /\ DOMAIN cells' = {}]_vars

\* C31: createProject with a display name whose slug is the slug of an
\* existing project is answered with the conflict error and leaves the
\* projects as they were; no two projects ever have the same slug.
C31_SlugConflict ==
    [][/\ last'.op = "createProject" =>
             \A displayName \in DisplayNames :
                 (/\ CreateProject(displayName)
                  /\ ~IsBlank(displayName)
                  /\ \E id \in DOMAIN meta.projects :
                        meta.projects[id].name = slugify(displayName))
                 => /\ last'.status = 409
                    /\ meta' = meta
       /\ \A i, j \in DOMAIN meta'.projects :
             meta'.projects[i].name = meta'.projects[j].name => i = j]_vars

\* a createProject was refused for its slug, made by another display name
\* than the existing project's, while two projects exist
C31_Witness ==
    /\ last.op = "createProject"
    /\ last.status = 409
    /\ Cardinality(DOMAIN meta.projects) = 2
    /\ \E id \in DOMAIN meta.projects :
          /\ meta.projects[id].name = ProjectSlug
          /\ meta.projects[id].display_name # <<"B">>

\* --------------------------------------------------- rename and move claims
\* C32: renamePage and movePage change the content of no cell: the links to
\* the page renamed or moved keep their data-page-id and their label.
C32_RenameKeepsCells ==
    [][last'.op = "updatePage" => cells' = cells]_vars

\* a page was renamed while a cell holds a link to it, labelled with the
\* title it had
C32_Witness ==
    /\ last.op = "updatePage"
    /\ last.status = 200
    /\ \E c \in DOMAIN cells :
          \E k \in 1..Len(Links(cells[c].content)) :
             LET link == Links(cells[c].content)[k]
             IN  /\ link[1] \in DOMAIN pages
                 /\ pages[link[1]].title # link[2]

\* C33: a page request that names a page id that does not exist (renamePage,
\* movePage, deletePage of a missing page; createPage or movePage under a
\* missing parent) is answered with the not-found error and changes no page
\* and no cell.
C33_MissingIdNotFound ==
    [][/\ last'.op = "createPage" =>
             \A title \in TitleInputs, parentId \in ParentIdInputs :
                 (/\ CreatePage(title, parentId)
                  /\ ~IsBlank(title)
                  /\ Truthy(parentId) /\ parentId \notin DOMAIN pages)
                 => last'.status = 404 /\ pages' = pages /\ cells' = cells
       /\ last'.op = "updatePage" =>
             \A pageId \in PageIdParams, title \in TitleInputs \cup {NoTitle},
                parentId \in ParentIdInputs :
                 (/\ UpdatePage(pageId, title, parentId)
                  /\ \/ pageId \notin DOMAIN pages
                     \/ /\ ~IsBlank(title)
                        /\ Truthy(parentId) /\ parentId \notin DOMAIN pages)
                 => last'.status = 404 /\ pages' = pages /\ cells' = cells
       /\ last'.op = "deletePage" =>
             \A pageId \in PageIdParams :
                 (DeletePage(pageId) /\ pageId \notin DOMAIN pages)
                 => last'.status = 404 /\ pages' = pages /\ cells' = cells]_vars

\* ------------------------------------------------------- cell type claims
\* C36: every cell type the validation of createCell and updateCell accepts
\* (text, header, subheader, table, ranking) is accepted by the store's type
\* constraint: a request with such a type never fails at the store.
C36_AllowedTypeStored ==
    [][/\ last'.op = "createCell" =>
             \A pageId \in PageIdParams, type \in CreateTypeInputs, orderIndex \in OrderInputs :
                 (CreateCell(pageId, type, <<>>, orderIndex) /\ type \in ValidTypes)
                 => last'.status # 500
       /\ last'.op = "updateCell" =>
             \A cellId \in CellIdParams, type \in UpdateTypeInputs,
                content \in UpdateContentInputs :
                 (UpdateCell(cellId, type, content) /\ type \in ValidTypes)
                 => last'.status # 500]_vars

\* ------------------------------------------------------ cell order claims
\* C35: within a page no two cells have the same order_index, after any
\* sequence of createPage, add cell, insert before and after, delete cell and
\* drag reorder made through the page's controls.
C35_OrderIndexUnique ==
    \A c, d \in DOMAIN cells :
        (cells[c].page_id = cells[d].page_id /\ cells[c].order_index = cells[d].order_index)
        => c = d

\* C34: "insert new cell before / after cell X", X a cell the page shows,
\* ends with the new cell immediately before, respectively after, X in the
\* page's order of order_index, and the other cells in the order they had.
C34_InsertPlacesCell ==
    [][editor'.ev = "insertCell" =>
          \A targetCellId \in CellIdParams, position \in {"before", "after"},
             type \in InsertTypes :
              (/\ HandleInsertCell(targetCellId, position, type)
               /\ findIndex(editor.cells, targetCellId) # 0)
              => LET new == nextCellId
                     of == CellsOf(cells', TargetPageId(editor.page))
                     at(c) == cells'[c].order_index
                 IN  /\ new \in of
                     /\ IF position = "before" THEN at(new) < at(targetCellId)
                                               ELSE at(targetCellId) < at(new)
                     /\ \A c \in of \ {new, targetCellId} :
                           ~(at(new) <= at(c) /\ at(c) <= at(targetCellId))
                           /\ ~(at(targetCellId) <= at(c) /\ at(c) <= at(new))
                     /\ \A i, j \in 1..Len(editor.cells) :
                           i < j => at(editor.cells[i]) < at(editor.cells[j])]_vars

\* ------------------------------------------------------ page list claims
\* C37: after a deletePage, movePage or renamePage made through the UI has
\* succeeded, the page list the client holds has exactly the pages the server
\* lists, each with the server's title, parent_id and path.
C37_ClientListInStep ==
    [][(/\ editor'.ev \in {"wikiUpdate", "wikiDelete"}
        /\ last'.status \in {200, 204})
       => editor'.wikiPages = listedPages(pages')]_vars

\* what a rename or move of page p may change: p's own title, parent_id and
\* path, and the path of the pages under p
OnlySubtreePaths(p) ==
    /\ DOMAIN pages' = DOMAIN pages
    /\ \A q \in DOMAIN pages \ {p} :
          /\ pages'[q].title = pages[q].title
          /\ pages'[q].parent_id = pages[q].parent_id
          /\ q \notin Subtree(pages, p) => pages'[q] = pages[q]

\* C38: a successful movePage or renamePage of a page P changes only P's own
\* title, parent_id and path and the path of P's descendants; the descendants
\* keep id, title and parent_id, every page outside P's subtree keeps all its
\* fields, and no page is created or deleted.
C38_MoveRenameFrame ==
    [][\A id \in 1..MaxPageId :
          \A title \in {<<"A">>, <<"b">>, NoTitle}, parentId \in 1..MaxPageId \cup {NULL, UNDEF} :
             (/\ editor'.ev = "wikiUpdate"
              /\ last'.status = 200
              /\ WikiUpdatePage(id, title, parentId))
             => OnlySubtreePaths(id)]_vars

\* a rename or move has succeeded whose cascade rewrote the path of a child,
\* with a page outside the subtree present
C38_Witness ==
    /\ editor.ev = "wikiUpdate"
    /\ last.op = "updatePage" /\ last.status = 200 /\ last.n = 2
    /\ 0 \in DOMAIN pages
    /\ \E q \in DOMAIN pages : pages[q].parent_id \in 1..MaxPageId

\* C39: the descendant path cascade of a rename or move always terminates, and
\* rewrites the path of each descendant exactly once: the request never ends
\* in the call stack overflowing, and a request the store did not fail issued
\* one UPDATE for the page and one for each page under it.
C39_CascadeTerminates ==
    [][last'.op = "updatePage" =>
          /\ last'.err # "stack"
          /\ last'.status = 200 =>
                \E p \in DOMAIN pages :
                   /\ OnlySubtreePaths(p)
                   /\ last'.n \in {1, Cardinality(Subtree(pages', p))}]_vars

====
